---- MODULE Spec2Model ----
(***************************************************************************)
(* EnriVision: the ustar archive stream (shared/tar.ts) and the resumable  *)
(* upload loop of the analyze_media tool (tools/AnalyzeMediaTool.ts with   *)
(* client/EnriProxyClient.ts).                                             *)
(*                                                                         *)
(* Bytes are integers 0..255, strings are sequences of code points, a      *)
(* Buffer is a sequence of bytes (index i of the Buffer is element i+1).   *)
(***************************************************************************)
EXTENDS Integers, Sequences, FiniteSets, TLC

VARIABLES
    entries,      \* the TarEntry list handed to computeTarSizeBytes / new TarStream
    tar,          \* the TarStream object: status, layout, totalSizeBytes
    sizeOnly,     \* the result of computeTarSizeBytes(entries), NoValue before the call
    cursors,      \* the iterateChunks generators created from the TarStream
    handles,      \* per generator, the file handles it opened that are still open
    paths,        \* execute: the resolved input paths of the tool call
    up,           \* execute: the locals of the upload in progress
    server,       \* the remote upload session: its offset and the bytes it accepted
    tool          \* one analyze_media call: its arguments, requests, log lines, result

vars == <<entries, tar, sizeOnly, cursors, handles, paths, up, server, tool>>

tarVars == <<entries, tar, sizeOnly, cursors, handles>>
uploadVars == <<paths, up, server>>

NoValue == -1

\* A JSON value: t is its type, s the code points of a string (the digits of
\* a number), items the elements of an array (each with k = "") or the own
\* properties of an object in insertion order.
Json(t, s, items) == [t |-> t, s |-> s, items |-> items]

Undefined == Json("undefined", <<>>, <<>>)

\* The tool before parseParams is called with the raw arguments.
IdleTool ==
    [pc |-> "idle", args |-> Undefined, apiKey |-> "", path |-> Undefined,
     paths |-> Undefined, error |-> "", requests |-> <<>>, logs |-> <<>>,
     extraction |-> Undefined, result |-> Undefined]

Min(a, b) == IF a < b THEN a ELSE b
Max(a, b) == IF a > b THEN a ELSE b

(***************************************************************************)
(* Program constants.                                                      *)
(***************************************************************************)
HeaderSize == 512
EndMarkerSize == 1024
NameFieldSize == 100
MaxEmptyReads == 50

(***************************************************************************)
(* Strings.                                                                *)
(***************************************************************************)
\* String.prototype.trim's white space among the code points the model uses.
WhiteSpace == {9, 10, 11, 12, 13, 32, 160}

RECURSIVE TrimStart(_)
TrimStart(s) ==
    IF s # <<>> /\ Head(s) \in WhiteSpace THEN TrimStart(Tail(s)) ELSE s

RECURSIVE TrimEnd(_)
TrimEnd(s) ==
    IF s # <<>> /\ s[Len(s)] \in WhiteSpace
      THEN TrimEnd(SubSeq(s, 1, Len(s) - 1))
      ELSE s

Trim(s) == TrimEnd(TrimStart(s))

\* Buffer.from(value, "utf8") for code points of the basic plane.
Utf8Char(c) ==
    IF c < 128 THEN <<c>>
    ELSE IF c < 2048 THEN <<192 + (c \div 64), 128 + (c % 64)>>
    ELSE <<224 + (c \div 4096), 128 + ((c \div 64) % 64), 128 + (c % 64)>>

\* The encoding of s[lo..hi], by halves.
RECURSIVE Utf8Range(_, _, _)
Utf8Range(s, lo, hi) ==
    IF lo > hi THEN <<>>
    ELSE IF lo = hi THEN Utf8Char(s[lo])
    ELSE LET mid == (lo + hi) \div 2
         IN  Utf8Range(s, lo, mid) \o Utf8Range(s, mid + 1, hi)

Utf8Bytes(s) == Utf8Range(s, 1, Len(s))

\* The character class [A-Za-z0-9._-].
SafeChar(c) ==
    \/ c \in 48..57
    \/ c \in 65..90
    \/ c \in 97..122
    \/ c \in {46, 95, 45}

isSafeTarName(name) ==
    LET normalized == Trim(name)
        bytes == Len(Utf8Bytes(normalized))
    IN  /\ normalized # <<>>
        /\ \A i \in 1..Len(normalized) : normalized[i] # 0
        /\ \A i \in 1..Len(normalized) : normalized[i] \notin {47, 92, 58}
        /\ bytes > 0
        /\ bytes <= NameFieldSize
        /\ Len(normalized) \in 1..NameFieldSize
        /\ \A i \in 1..Len(normalized) : SafeChar(normalized[i])

(***************************************************************************)
(* The ustar header.                                                       *)
(***************************************************************************)
\* bytes.copy(buf, offset, 0, min(bytes.length, length))
writeBytes(buf, offset, length, bytes) ==
    LET n == Min(Min(Len(bytes), length), Len(buf) - offset)
    IN  [i \in 1..Len(buf) |->
            IF i - 1 >= offset /\ i - 1 < offset + n THEN bytes[i - offset] ELSE buf[i]]

writeString(buf, offset, length, value) ==
    writeBytes(buf, offset, length, Utf8Bytes(value))

\* Number.prototype.toString(8), as code points.
RECURSIVE toOctal(_)
toOctal(n) ==
    IF n < 8 THEN <<48 + n>> ELSE toOctal(n \div 8) \o <<48 + (n % 8)>>

padStart(s, width, ch) ==
    IF Len(s) >= width THEN s ELSE [i \in 1..(width - Len(s)) |-> ch] \o s

\* Mutant: the digits fill the whole field and leave no room for the NUL.
writeOctal_FullWidth(buf, offset, length, value) ==
    writeString(buf, offset, length, padStart(toOctal(Max(0, value)), length, 48) \o <<0>>)

writeOctal(buf, offset, length, value) ==
    LET raw == Max(0, value)
        padded == padStart(toOctal(raw), Max(0, length - 1), 48)
    IN  writeString(buf, offset, length, padded \o <<0>>)

\* The sum of buf[lo..hi], by halves.
RECURSIVE SumRange(_, _, _)
SumRange(buf, lo, hi) ==
    IF lo > hi THEN 0
    ELSE IF lo = hi THEN buf[lo]
    ELSE LET mid == (lo + hi) \div 2
         IN  SumRange(buf, lo, mid) + SumRange(buf, mid + 1, hi)

\* Mutant: the sum starts at the second byte.
computeTarChecksum_SkipFirst(buf) == SumRange(buf, 2, Len(buf))

computeTarChecksum(buf) == SumRange(buf, 1, Len(buf))

writeChecksum(buf, checksum) ==
    LET oct == padStart(toOctal(Max(0, checksum)), 6, 48)
        b1 == writeString(buf, 148, 6, oct)
    IN  [b1 EXCEPT ![155] = 0, ![156] = 32]

buildUstarHeader(name, sizeBytes, mtimeSeconds) ==
    LET b0 == [i \in 1..HeaderSize |-> 0]
        b1 == writeString(b0, 0, NameFieldSize, name)
        b2 == writeOctal(b1, 100, 8, 420)
        b3 == writeOctal(b2, 108, 8, 0)
        b4 == writeOctal(b3, 116, 8, 0)
        b5 == writeOctal(b4, 124, 12, sizeBytes)
        b6 == writeOctal(b5, 136, 12, Max(0, mtimeSeconds))
        b7 == [i \in 1..HeaderSize |-> IF i - 1 \in 148..155 THEN 32 ELSE b6[i]]
        b8 == [b7 EXCEPT ![157] = 48]
        b9 == writeString(b8, 257, 6, <<117, 115, 116, 97, 114, 0>>)
        b10 == writeString(b9, 263, 2, <<48, 48>>)
    IN  writeChecksum(b10, computeTarChecksum(b10))

(***************************************************************************)
(* Layout.                                                                 *)
(***************************************************************************)
\* Mutant: the padding is the remainder instead of its complement to a block.
computePaddingSize_Remainder(sizeBytes) == sizeBytes % HeaderSize

computePaddingSize(sizeBytes) ==
    LET mod == sizeBytes % HeaderSize
    IN  IF mod = 0 THEN 0 ELSE HeaderSize - mod

ContentSizeOf(entry) ==
    IF entry.source.type = "buffer" THEN Len(entry.source.buffer) ELSE entry.source.sizeBytes

RECURSIVE SizeFrom(_, _)
SizeFrom(es, i) ==
    IF i > Len(es) THEN 0
    ELSE HeaderSize + ContentSizeOf(es[i]) + computePaddingSize(ContentSizeOf(es[i]))
         + SizeFrom(es, i + 1)

\* Mutant: the end marker is left out of the size-only computation.
computeTarSizeBytes_NoEndMarker(es) == SizeFrom(es, 1)

computeTarSizeBytes(es) == SizeFrom(es, 1) + EndMarkerSize

\* Mutant: the total size of an entry leaves its padding out.
LayoutEntry_NoPaddingInTotal(entry, cursor) ==
    LET contentSize == ContentSizeOf(entry)
    IN  [name |-> entry.name,
         header |-> buildUstarHeader(entry.name, contentSize, entry.mtimeSeconds),
         source |-> entry.source,
         headerStart |-> cursor,
         contentStart |-> cursor + HeaderSize,
         contentSize |-> contentSize,
         paddingSize |-> computePaddingSize(contentSize),
         totalSize |-> HeaderSize + contentSize]

\* One iteration of the constructor's loop: the layout element pushed for `entry`
\* when the running cursor is `cursor`.
LayoutEntry(entry, cursor) ==
    LET contentSize == ContentSizeOf(entry)
        paddingSize == computePaddingSize(contentSize)
    IN  [name |-> entry.name,
         header |-> buildUstarHeader(entry.name, contentSize, entry.mtimeSeconds),
         source |-> entry.source,
         headerStart |-> cursor,
         contentStart |-> cursor + HeaderSize,
         contentSize |-> contentSize,
         paddingSize |-> paddingSize,
         totalSize |-> HeaderSize + contentSize + paddingSize]

RECURSIVE BuildLayout(_, _, _)
BuildLayout(es, i, cursor) ==
    IF i > Len(es) THEN <<>>
    ELSE LET le == LayoutEntry(es[i], cursor)
         IN  <<le>> \o BuildLayout(es, i + 1, cursor + le.totalSize)

LayoutEnd(layout) ==
    IF layout = <<>> THEN 0
    ELSE layout[Len(layout)].headerStart + layout[Len(layout)].totalSize

\* new TarStream(entries): throws on the first unsafe name, else the object.
TarStreamOf(es) ==
    IF \E i \in 1..Len(es) : ~isSafeTarName(es[i].name)
      THEN [status |-> "invalid", layout |-> <<>>, totalSizeBytes |-> NoValue]
      ELSE LET layout == BuildLayout(es, 1, 0)
           IN  [status |-> "constructed",
                layout |-> layout,
                totalSizeBytes |-> LayoutEnd(layout) + EndMarkerSize]

(***************************************************************************)
(* The file system the archive reads from: for every path, the number of   *)
(* size stat reports, the number of bytes the file holds when it is read   *)
(* (a file may shrink after it was stat-ed), its name and a seed for its   *)
(* content.                                                                *)
(***************************************************************************)
Disk ==
    [a     |-> [exists |-> TRUE, isFile |-> TRUE, readable |-> TRUE, statSize |-> 11, size |-> 11, seed |-> 3,
                filename |-> <<115, 104, 111, 116, 45, 97, 46, 112, 110, 103>>],
     b     |-> [exists |-> TRUE, isFile |-> TRUE, readable |-> TRUE, statSize |-> 33, size |-> 33, seed |-> 5,
                filename |-> <<98, 46, 74, 80, 71>>],
     big   |-> [exists |-> TRUE, isFile |-> TRUE, readable |-> TRUE, statSize |-> 600, size |-> 600, seed |-> 7,
                filename |-> <<98, 105, 103, 46, 112, 110, 103>>],
     block |-> [exists |-> TRUE, isFile |-> TRUE, readable |-> TRUE, statSize |-> 512, size |-> 512, seed |-> 11,
                filename |-> <<98, 108, 111, 99, 107, 46, 119, 101, 98, 112>>],
     empty |-> [exists |-> TRUE, isFile |-> TRUE, readable |-> TRUE, statSize |-> 0, size |-> 0, seed |-> 13,
                filename |-> <<101, 109, 112, 116, 121, 46, 103, 105, 102>>],
     short |-> [exists |-> TRUE, isFile |-> TRUE, readable |-> TRUE, statSize |-> 40, size |-> 25, seed |-> 17,
                filename |-> <<115, 104, 111, 114, 116, 46, 106, 112, 101, 103>>],
     notes |-> [exists |-> TRUE, isFile |-> TRUE, readable |-> TRUE, statSize |-> 9, size |-> 9, seed |-> 19,
                filename |-> <<110, 111, 116, 101, 115, 46, 116, 120, 116>>],
     dir   |-> [exists |-> TRUE, isFile |-> FALSE, readable |-> TRUE, statSize |-> 0, size |-> 0, seed |-> 23,
                filename |-> <<97, 108, 98, 117, 109, 46, 112, 110, 103>>],
     locked |-> [exists |-> TRUE, isFile |-> TRUE, readable |-> FALSE, statSize |-> 12, size |-> 12, seed |-> 31,
                filename |-> <<108, 111, 99, 107, 101, 100, 46, 112, 110, 103>>],
     gone  |-> [exists |-> FALSE, isFile |-> FALSE, readable |-> TRUE, statSize |-> 0, size |-> 0, seed |-> 29,
                filename |-> <<103, 111, 110, 101, 46, 112, 110, 103>>]]

\* The byte at position pos of the file at path.
FileByte(path, pos) ==
    ((pos % 251) + 17 * (pos \div 251) + 29 * Disk[path].seed + 1) % 256

\* handle.read(buffer, 0, take, position): the bytes read, none at or past the
\* end of the file.
FileRead(path, take, position) ==
    LET n == Min(take, Max(0, Disk[path].size - position))
    IN  [i \in 1..n |-> FileByte(path, position + i - 1)]

\* Buffer.subarray(start, end), clamped to the buffer as Node does.
subarray(buf, start, end) ==
    SubSeq(buf, Min(start, Len(buf)) + 1, Min(end, Len(buf)))

Zeros(n) == [i \in 1..n |-> 0]

(***************************************************************************)
(* The read cursor of TarStream.                                           *)
(***************************************************************************)
NoHandle == "null"

RECURSIVE SeekFrom(_, _, _, _)
SeekFrom(layout, offset, i, cursor) ==
    IF i > Len(layout)
      THEN [phase |-> "eof", entryIndex |-> Len(layout),
            phaseOffset |-> offset - cursor, fileHandle |-> NoHandle]
      ELSE LET entry == layout[i]
               next == cursor + entry.totalSize
               rel == offset - cursor
               relContent == rel - HeaderSize
           IN  IF offset < next
                 THEN IF rel < HeaderSize
                        THEN [phase |-> "entry_header", entryIndex |-> i - 1,
                              phaseOffset |-> rel, fileHandle |-> NoHandle]
                      ELSE IF relContent < entry.contentSize
                        THEN [phase |-> "entry_content", entryIndex |-> i - 1,
                              phaseOffset |-> relContent, fileHandle |-> NoHandle]
                      ELSE [phase |-> "entry_padding", entryIndex |-> i - 1,
                            phaseOffset |-> relContent - entry.contentSize,
                            fileHandle |-> NoHandle]
                 ELSE SeekFrom(layout, offset, i + 1, next)

\* Mutant: the cursor is placed at the start of the phase that owns the offset.
seek_PhaseStart(layout, offset) ==
    [SeekFrom(layout, offset, 1, 0) EXCEPT !.phaseOffset = 0]

seek(layout, offset) == SeekFrom(layout, offset, 1, 0)

\* The result of one readNext call: the state it leaves, the bytes it returns,
\* the paths it opened and the handles it closed.
ReadResult(state, out, opened, closed) ==
    [state |-> state, out |-> out, opened |-> opened, closed |-> closed]

\* this.closeFileHandle(state)
\* Mutant: the state keeps its handle.
closeFileHandle_KeepsHandle(state) == state

closeFileHandle(state) == [state EXCEPT !.fileHandle = NoHandle]

ClosedBy(state) == IF state.fileHandle = NoHandle THEN {} ELSE {state.fileHandle}

\* The step out of entry_padding: to the next entry's header or to the end marker.
NextEntry(layout, state) ==
    [phase |-> IF state.entryIndex + 1 >= Len(layout) THEN "eof" ELSE "entry_header",
     entryIndex |-> state.entryIndex + 1,
     phaseOffset |-> 0,
     fileHandle |-> NoHandle]

readNextEof(state, want) ==
    LET remaining == Max(0, EndMarkerSize - state.phaseOffset)
        take == Min(want, remaining)
    IN  IF remaining <= 0
          THEN ReadResult(state, <<>>, {}, {})
          ELSE ReadResult([state EXCEPT !.phaseOffset = @ + take], Zeros(take), {}, {})

\* Mutant: the content phase is entered with the offset the header phase ended at.
readNextHeader_KeepOffset(entry, state, want) ==
    LET remaining == Max(0, HeaderSize - state.phaseOffset)
        take == Min(want, remaining)
        out == subarray(entry.header, state.phaseOffset, state.phaseOffset + take)
        po == state.phaseOffset + take
    IN  IF po >= HeaderSize
          THEN ReadResult([state EXCEPT !.phase = "entry_content", !.phaseOffset = po],
                          out, {}, {})
          ELSE ReadResult([state EXCEPT !.phaseOffset = po], out, {}, {})

readNextHeader(entry, state, want) ==
    LET remaining == Max(0, HeaderSize - state.phaseOffset)
        take == Min(want, remaining)
        out == subarray(entry.header, state.phaseOffset, state.phaseOffset + take)
        po == state.phaseOffset + take
    IN  IF po >= HeaderSize
          THEN ReadResult([state EXCEPT !.phase = "entry_content", !.phaseOffset = 0],
                          out, {}, {})
          ELSE ReadResult([state EXCEPT !.phaseOffset = po], out, {}, {})

\* Mutant: the file of an entry is opened before its remaining content is looked at.
readNextContent_OpenFirst(entry, state, want) ==
    LET remaining == Max(0, entry.contentSize - state.phaseOffset)
        take == Min(want, remaining)
        toPadding == [state EXCEPT !.phase = "entry_padding", !.phaseOffset = 0]
        isFile == entry.source.type = "file"
        opened == IF isFile /\ state.fileHandle = NoHandle THEN {entry.source.path} ELSE {}
        held == [state EXCEPT !.fileHandle =
                     IF isFile /\ @ = NoHandle THEN entry.source.path ELSE @]
    IN  IF remaining <= 0
          THEN ReadResult(closeFileHandle(toPadding), <<>>, opened, ClosedBy(held))
        ELSE IF ~isFile
          THEN LET buf == subarray(entry.source.buffer, state.phaseOffset,
                                   state.phaseOffset + take)
                   po == state.phaseOffset + take
               IN  IF po >= entry.contentSize
                     THEN ReadResult(toPadding, buf, {}, {})
                     ELSE ReadResult([state EXCEPT !.phaseOffset = po], buf, {}, {})
        ELSE LET read == FileRead(held.fileHandle, take, state.phaseOffset)
                 po == state.phaseOffset + Len(read)
             IN  IF Len(read) <= 0 \/ po >= entry.contentSize
                   THEN ReadResult(closeFileHandle(toPadding), read, opened,
                                   ClosedBy(held))
                 ELSE ReadResult([held EXCEPT !.phaseOffset = po], read, opened, {})

readNextContent(entry, state, want) ==
    LET remaining == Max(0, entry.contentSize - state.phaseOffset)
        take == Min(want, remaining)
        toPadding == [state EXCEPT !.phase = "entry_padding", !.phaseOffset = 0]
    IN  IF remaining <= 0
          THEN ReadResult(closeFileHandle(toPadding), <<>>, {}, ClosedBy(state))
        ELSE IF entry.source.type = "buffer"
          THEN LET buf == subarray(entry.source.buffer, state.phaseOffset,
                                   state.phaseOffset + take)
                   po == state.phaseOffset + take
               IN  IF po >= entry.contentSize
                     THEN ReadResult(toPadding, buf, {}, {})
                     ELSE ReadResult([state EXCEPT !.phaseOffset = po], buf, {}, {})
        ELSE LET path == entry.source.path
                 opened == IF state.fileHandle = NoHandle THEN {path} ELSE {}
                 held == [state EXCEPT !.fileHandle =
                              IF @ = NoHandle THEN path ELSE @]
                 read == FileRead(held.fileHandle, take, state.phaseOffset)
                 po == state.phaseOffset + Len(read)
             IN  IF Len(read) <= 0
                   THEN ReadResult(closeFileHandle(toPadding), <<>>, opened,
                                   ClosedBy(held))
                 ELSE IF po >= entry.contentSize
                   THEN ReadResult(closeFileHandle(toPadding), read, opened,
                                   ClosedBy(held))
                 ELSE ReadResult([held EXCEPT !.phaseOffset = po], read, opened, {})

readNextPadding(layout, entry, state, want) ==
    LET remaining == Max(0, entry.paddingSize - state.phaseOffset)
        take == Min(want, remaining)
        po == state.phaseOffset + take
    IN  IF remaining <= 0
          THEN ReadResult(NextEntry(layout, state), <<>>, {}, {})
        ELSE IF po >= entry.paddingSize
          THEN ReadResult(NextEntry(layout, state), Zeros(take), {}, {})
        ELSE ReadResult([state EXCEPT !.phaseOffset = po], Zeros(take), {}, {})

readNext(layout, state, maxBytes) ==
    LET want == Max(1, maxBytes)
    IN  IF state.phase = "eof" THEN readNextEof(state, want)
        ELSE IF state.phase = "entry_header"
          THEN readNextHeader(layout[state.entryIndex + 1], state, want)
        ELSE IF state.phase = "entry_content"
          THEN readNextContent(layout[state.entryIndex + 1], state, want)
        ELSE readNextPadding(layout, layout[state.entryIndex + 1], state, want)

(***************************************************************************)
(* iterateChunks: one generator per cursor id.  A generator is suspended   *)
(* either at `await this.readNext(...)` (status "running") or at `yield`   *)
(* (status "yielded").                                                     *)
(***************************************************************************)
Cursors == {1, 2}

IdleCursor ==
    [status |-> "idle", startOffset |-> 0, chunkArg |-> 1, chunkSize |-> 1,
     position |-> 0,
     state |-> [phase |-> "eof", entryIndex |-> 0, phaseOffset |-> 0,
                fileHandle |-> NoHandle],
     remaining |-> 0, parts |-> <<>>, emptyReadsInARow |-> 0,
     chunk |-> <<>>, out |-> <<>>, opens |-> <<>>]

\* Mutant: the chunk is not limited by the chunk size.
EnterChunk_Whole(cur) ==
    IF cur.position < tar.totalSizeBytes
      THEN [cur EXCEPT !.status = "running",
                       !.remaining = tar.totalSizeBytes - cur.position,
                       !.parts = <<>>,
                       !.emptyReadsInARow = 0]
      ELSE [cur EXCEPT !.status = "done"]

\* The head of the outer loop: `while (position < this.totalSizeBytes)` and the
\* preparation of the next chunk, or the end of the generator.
EnterChunk(cur) ==
    IF cur.position < tar.totalSizeBytes
      THEN [cur EXCEPT !.status = "running",
                       !.remaining = Min(cur.chunkSize, tar.totalSizeBytes - cur.position),
                       !.parts = <<>>,
                       !.emptyReadsInARow = 0]
      ELSE [cur EXCEPT !.status = "done"]

\* Mutant: a negative start offset is mirrored instead of raised to 0.
StartedCursor_Mirrored(startOffset, chunkSize) ==
    LET normalizedStart == IF startOffset < 0 THEN 0 - startOffset ELSE startOffset
        normalizedChunk == Max(1, chunkSize)
        fresh == [IdleCursor EXCEPT !.startOffset = startOffset,
                                    !.chunkArg = chunkSize,
                                    !.chunkSize = normalizedChunk,
                                    !.position = normalizedStart]
    IN  IF normalizedStart >= tar.totalSizeBytes
          THEN [fresh EXCEPT !.status = "done"]
          ELSE EnterChunk([fresh EXCEPT !.state = seek(tar.layout, normalizedStart)])

\* The first next() of iterateChunks(startOffset, chunkSize).
StartedCursor(startOffset, chunkSize) ==
    LET normalizedStart == Max(0, startOffset)
        normalizedChunk == Max(1, chunkSize)
        fresh == [IdleCursor EXCEPT !.startOffset = startOffset,
                                    !.chunkArg = chunkSize,
                                    !.chunkSize = normalizedChunk,
                                    !.position = normalizedStart]
    IN  IF normalizedStart >= tar.totalSizeBytes
          THEN [fresh EXCEPT !.status = "done"]
          ELSE EnterChunk([fresh EXCEPT !.state = seek(tar.layout, normalizedStart)])

\* After the inner loop: nothing gathered ends the generator, else the chunk is
\* yielded.
LeaveChunk(cur) ==
    IF cur.parts = <<>>
      THEN [cur EXCEPT !.status = "done"]
      ELSE [cur EXCEPT !.status = "yielded",
                       !.chunk = cur.parts,
                       !.out = @ \o cur.parts]

\* Mutant: an empty read is not counted.
AfterRead_Uncounted(cur, r) ==
    LET base == [cur EXCEPT !.state = r.state,
                            !.opens = @ \o (IF r.opened = {} THEN <<>>
                                            ELSE <<cur.state.entryIndex>>)]
    IN  IF Len(r.out) <= 0
          THEN base
          ELSE LET g == [base EXCEPT !.emptyReadsInARow = 0,
                                     !.parts = @ \o r.out,
                                     !.remaining = @ - Len(r.out),
                                     !.position = @ + Len(r.out)]
               IN  IF g.remaining > 0 THEN g ELSE LeaveChunk(g)

\* Mutant: every read that returned bytes is yielded as a chunk of its own.
AfterRead_NoCoalescing(cur, r) ==
    LET base == [cur EXCEPT !.state = r.state,
                            !.opens = @ \o (IF r.opened = {} THEN <<>>
                                            ELSE <<cur.state.entryIndex>>)]
    IN  IF Len(r.out) <= 0
          THEN LET e == [base EXCEPT !.emptyReadsInARow = @ + 1]
               IN  IF e.emptyReadsInARow > MaxEmptyReads THEN LeaveChunk(e) ELSE e
          ELSE LeaveChunk([base EXCEPT !.emptyReadsInARow = 0,
                                       !.parts = @ \o r.out,
                                       !.remaining = @ - Len(r.out),
                                       !.position = @ + Len(r.out)])

\* One iteration of the inner loop `while (remaining > 0)`.
AfterRead(cur, r) ==
    LET base == [cur EXCEPT !.state = r.state,
                            !.opens = @ \o (IF r.opened = {} THEN <<>>
                                            ELSE <<cur.state.entryIndex>>)]
    IN  IF Len(r.out) <= 0
          THEN LET e == [base EXCEPT !.emptyReadsInARow = @ + 1]
               IN  IF e.emptyReadsInARow > MaxEmptyReads THEN LeaveChunk(e) ELSE e
          ELSE LET g == [base EXCEPT !.emptyReadsInARow = 0,
                                     !.parts = @ \o r.out,
                                     !.remaining = @ - Len(r.out),
                                     !.position = @ + Len(r.out)]
               IN  IF g.remaining > 0 THEN g ELSE LeaveChunk(g)

\* The generator of cursor c would touch the file of its current entry next.
AtFileRead(cur) ==
    /\ cur.status = "running"
    /\ cur.state.phase = "entry_content"
    /\ LET entry == tar.layout[cur.state.entryIndex + 1]
       IN  /\ entry.source.type = "file"
           /\ entry.contentSize - cur.state.phaseOffset > 0

(***************************************************************************)
(* Actions on the archive stream.                                          *)
(***************************************************************************)
ComputeSize ==
    /\ sizeOnly = NoValue
    /\ sizeOnly' = computeTarSizeBytes(entries)
    /\ UNCHANGED <<entries, tar, cursors, handles, paths, tool, up, server>>

Construct ==
    /\ tar.status = "new"
    /\ tar' = TarStreamOf(entries)
    /\ UNCHANGED <<entries, sizeOnly, cursors, handles, paths, tool, up, server>>

Start(c, startOffset, chunkSize) ==
    /\ tar.status = "constructed"
    /\ cursors[c].status = "idle"
    /\ cursors' = [cursors EXCEPT ![c] = StartedCursor(startOffset, chunkSize)]
    /\ UNCHANGED <<entries, tar, sizeOnly, handles, paths, tool, up, server>>

\* Mutant: the read state is kept on the stream, one for all its generators.
ReadStep_SharedState(c) ==
    /\ cursors[c].status = "running"
    /\ LET r == readNext(tar.layout, cursors[1].state, cursors[c].remaining)
       IN  /\ cursors' = [cursors EXCEPT ![c] = AfterRead(cursors[c], r),
                                         ![1].state = r.state]
           /\ handles' = [handles EXCEPT ![c] = (@ \cup r.opened) \ r.closed]
    /\ UNCHANGED <<entries, tar, sizeOnly, paths, tool, up, server>>

ReadStep(c) ==
    /\ cursors[c].status = "running"
    /\ LET r == readNext(tar.layout, cursors[c].state, cursors[c].remaining)
       IN  /\ cursors' = [cursors EXCEPT ![c] = AfterRead(cursors[c], r)]
           /\ handles' = [handles EXCEPT ![c] = (@ \cup r.opened) \ r.closed]
    /\ UNCHANGED <<entries, tar, sizeOnly, paths, tool, up, server>>

\* open() or handle.read() rejects: the generator throws out of readNext.
ReadFail(c, atOpen) ==
    /\ AtFileRead(cursors[c])
    /\ atOpen => cursors[c].state.fileHandle = NoHandle
    /\ LET path == tar.layout[cursors[c].state.entryIndex + 1].source.path
           opened == IF atOpen \/ cursors[c].state.fileHandle # NoHandle
                       THEN {} ELSE {path}
       IN  /\ cursors' = [cursors EXCEPT
                  ![c].status = "failed",
                  ![c].state.fileHandle = IF atOpen THEN NoHandle
                                          ELSE IF @ = NoHandle THEN path ELSE @,
                  ![c].opens = @ \o (IF opened = {} THEN <<>>
                                     ELSE <<cursors[c].state.entryIndex>>)]
           /\ handles' = [handles EXCEPT ![c] = @ \cup opened]
    /\ UNCHANGED <<entries, tar, sizeOnly, paths, tool, up, server>>

\* The consumer asks for the next chunk.
Resume(c) ==
    /\ cursors[c].status = "yielded"
    /\ cursors' = [cursors EXCEPT ![c] = EnterChunk(cursors[c])]
    /\ UNCHANGED <<entries, tar, sizeOnly, handles, paths, tool, up, server>>

\* The consumer leaves its for-await loop: the generator is returned at its
\* yield and never advanced again.
Abandon(c) ==
    /\ cursors[c].status = "yielded"
    /\ cursors' = [cursors EXCEPT ![c].status = "abandoned"]
    /\ UNCHANGED <<entries, tar, sizeOnly, handles, paths, tool, up, server>>

(***************************************************************************)
(* Inputs of the archive specification.                                    *)
(***************************************************************************)
MaxEntries == 3

NowSeconds == 1700000000

ManifestName == <<109, 97, 110, 105, 102, 101, 115, 116, 46, 106, 115, 111, 110>>

BufferEntry(name, buffer) ==
    [name |-> name, source |-> [type |-> "buffer", buffer |-> buffer],
     mtimeSeconds |-> NowSeconds]

FileEntry(name, path, sizeBytes) ==
    [name |-> name, source |-> [type |-> "file", path |-> path, sizeBytes |-> sizeBytes],
     mtimeSeconds |-> NowSeconds]

\* {"ok":true}
SmallManifest == BufferEntry(ManifestName, <<123, 34, 111, 107, 34, 58, 116, 114, 117, 101, 125>>)

EntryA == FileEntry(<<48, 48, 48, 48, 48, 49, 46, 98, 105, 110>>, "a", 11)
EntryB == FileEntry(<<48, 48, 48, 48, 48, 50, 46, 98, 105, 110>>, "b", 33)
EntryBig == FileEntry(<<48, 48, 48, 48, 48, 51, 46, 112, 110, 103>>, "big", 600)
EntryBlock == FileEntry(<<48, 48, 48, 48, 48, 52, 46, 105, 109, 103>>, "block", 512)
EntryEmpty == FileEntry(<<48, 48, 48, 48, 48, 53, 46, 103, 105, 102>>, "empty", 0)
\* declared 40 bytes, 25 on disk
EntryShort == FileEntry(<<48, 48, 48, 48, 48, 54, 46, 106, 112, 103>>, "short", 40)

LongName(n) == [i \in 1..n |-> 97 + (i % 26)]

\* Names offered to the constructor besides the ones above.
NameInputs ==
    { <<>>,
      <<32>>,
      <<97, 47, 98>>,
      <<97, 92, 98>>,
      <<99, 58, 100>>,
      <<98, 97, 100, 32, 110, 97, 109, 101>>,
      <<97, 0, 98>>,
      <<233, 46, 112, 110, 103>>,
      <<32, 108, 101, 97, 100, 46, 98, 105, 110>>,
      <<116, 114, 97, 105, 108, 46, 98, 105, 110>> \o <<10>>,
      LongName(100),
      LongName(101),
      LongName(100) \o <<32>> }

AllEntryLists ==
    { <<>>,
      <<SmallManifest, EntryA, EntryB>>,
      <<SmallManifest, EntryBig, EntryEmpty>>,
      <<EntryBlock, EntryShort>>,
      <<SmallManifest, EntryA, EntryEmpty, EntryBig>> }
    \cup { <<BufferEntry(n, <<120>>)>> : n \in NameInputs }
    \cup { <<EntryA, BufferEntry(n, <<>>)>> : n \in {<<97, 47, 98>>, <<32>>} }

EntryLists == { es \in AllEntryLists : Len(es) <= MaxEntries }

ChunkSizes == {128, 700, 4096}

TailBytes == 3

\* Resume offsets: the first, second and last byte of every header, content,
\* padding and end-marker region, the offsets just past the archive and a
\* negative offset.
ResumeOffsets ==
    LET total == tar.totalSizeBytes
        marks == {0, total - EndMarkerSize}
                 \cup { tar.layout[i].headerStart : i \in 1..Len(tar.layout) }
                 \cup { tar.layout[i].contentStart : i \in 1..Len(tar.layout) }
                 \cup { tar.layout[i].contentStart + tar.layout[i].contentSize :
                            i \in 1..Len(tar.layout) }
    IN  { o \in { m + d : m \in marks, d \in {-1, 0, 1, 10} } : o >= 0 /\ o <= total }
        \cup {-1, total, total + 1}

NoError == [kind |-> "none", status |-> 0, message |-> ""]

\* execute before its first statement.  Of one uploadChunkWithRetry call the
\* record keeps: attempt (the loop variable), sent (append requests sent),
\* waits (backoffs waited), onlyConflicts (every request so far was answered
\* 409 and re-queried to the declared offset) and lastError; resynced says
\* that a call has returned a re-queried offset ("offset resync" was logged).
IdleUpload ==
    [pc |-> "start", total |-> 0, chunkSize |-> 1, offset |-> 0,
     expectedOffset |-> 0, chunk |-> <<>>, madeProgress |-> FALSE,
     attempt |-> 0, sent |-> 0, waits |-> 0, onlyConflicts |-> TRUE, delay |-> 0,
     lastError |-> NoError, error |-> NoError,
     resynced |-> FALSE, fileOpen |-> FALSE, analyzed |-> FALSE,
     uploadId |-> "", queried |-> NoValue, firstDeclared |-> NoValue]

NoSession == [created |-> FALSE, id |-> "", hint |-> 0, declared |-> 0, base |-> 0, offset |-> 0,
              accepted |-> <<>>, lastDeclared |-> NoValue, broken |-> 0]

NewTar == [status |-> "new", layout |-> <<>>, totalSizeBytes |-> NoValue]

TarInit ==
    /\ entries \in EntryLists
    /\ tar = NewTar
    /\ sizeOnly = NoValue
    /\ cursors = [c \in Cursors |-> IdleCursor]
    /\ handles = [c \in Cursors |-> {}]
    /\ paths = <<>>
    /\ up = IdleUpload
    /\ server = NoSession
    /\ tool = IdleTool

\* The reference read of the whole archive, then a read resumed at an offset.
StartFull == \E cs \in ChunkSizes : Start(1, 0, cs)

StartResumed ==
    /\ cursors[1].status = "done"
    /\ \E o \in ResumeOffsets : \E cs \in ChunkSizes : Start(2, o, cs)

\* A read of the last bytes of the archive with a chunk size of 0, which is
\* normalised to one byte per chunk.
StartTail ==
    /\ cursors[1].status = "done"
    /\ Start(2, tar.totalSizeBytes - TailBytes, 0)

TarNext ==
    \/ ComputeSize
    \/ Construct
    \/ StartFull
    \/ StartResumed
    \/ StartTail
    \/ \E c \in Cursors : ReadStep(c)
    \/ \E c \in Cursors : \E atOpen \in BOOLEAN : ReadFail(c, atOpen)
    \/ \E c \in Cursors : Resume(c)
    \/ \E c \in Cursors : Abandon(c)

SpecTar == TarInit /\ [][TarNext]_vars

\* The reads of a whole archive and of its tail, with the fairness the event
\* loop gives a generator that was asked for its next chunk: the continuation
\* of each awaited readNext is scheduled.
TarFairNext ==
    \/ ComputeSize
    \/ Construct
    \/ StartFull
    \/ StartTail
    \/ \E c \in Cursors : ReadStep(c)
    \/ \E c \in Cursors : \E atOpen \in BOOLEAN : ReadFail(c, atOpen)
    \/ \E c \in Cursors : Resume(c)
    \/ \E c \in Cursors : Abandon(c)

SpecTarFair ==
    TarInit /\ [][TarFairNext]_vars /\ \A c \in Cursors : WF_vars(ReadStep(c))

\* A generator driven alone to its end by a consumer that takes every chunk:
\* the record it ends with.
RECURSIVE RunAlone(_)
RunAlone(cur) ==
    IF cur.status = "running"
      THEN RunAlone(AfterRead(cur, readNext(tar.layout, cur.state, cur.remaining)))
    ELSE IF cur.status = "yielded"
      THEN RunAlone(EnterChunk(cur))
    ELSE cur

\* Two generators of one stream, started at any time and at their own offsets
\* and chunk sizes, and pulled in any order.
TarPairNext ==
    \/ Construct
    \/ \E o \in {0, 520} : Start(1, o, 700)
    \/ \E o \in {520, 1100} : Start(2, o, 300)
    \/ \E c \in Cursors : ReadStep(c)
    \/ \E c \in Cursors : Resume(c)

SpecTarPair == TarInit /\ [][TarPairNext]_vars

(***************************************************************************)
(* Properties of the archive stream.                                       *)
(***************************************************************************)
\* Every file-backed entry names a file that holds exactly its declared size.
FilesHoldDeclaredSize ==
    \A i \in 1..Len(entries) :
        entries[i].source.type = "file"
            => Disk[entries[i].source.path].size = entries[i].source.sizeBytes

Finished(c) == cursors[c].status = "done"

\* C2: for an entry list the constructor accepts and whose files hold their
\* declared size, the chunks of a read resumed at an offset o in 0..total,
\* concatenated, are the suffix from index o of the concatenated chunks of a
\* read from offset 0, whatever the two chunk sizes.
C2_ResumedIsSuffix ==
    ( /\ Finished(1)
      /\ Finished(2)
      /\ cursors[2].startOffset \in 0..tar.totalSizeBytes
      /\ FilesHoldDeclaredSize )
    => cursors[2].out =
           SubSeq(cursors[1].out, cursors[2].startOffset + 1, Len(cursors[1].out))

\* A resumed read that began inside the content of a file-backed entry, with a
\* chunk size other than the reference read's, has ended.
C2_Witness ==
    /\ Finished(1)
    /\ Finished(2)
    /\ FilesHoldDeclaredSize
    /\ cursors[1].chunkSize # cursors[2].chunkSize
    /\ cursors[2].out # <<>>
    /\ LET st == seek(tar.layout, cursors[2].startOffset)
       IN  /\ st.phase = "entry_content"
           /\ st.phaseOffset > 0
           /\ tar.layout[st.entryIndex + 1].source.type = "file"

\* C3: the size-only computation, the constructed stream's total and the
\* number of bytes a read from offset 0 yields are the same number (the files
\* holding their declared size), so the orchestrator's size comparison cannot
\* fail.
C3_SizesAgree ==
    /\ (tar.status = "constructed" /\ sizeOnly # NoValue)
           => sizeOnly = tar.totalSizeBytes
    /\ \A c \in Cursors :
           ( /\ Finished(c)
             /\ cursors[c].startOffset = 0
             /\ sizeOnly # NoValue
             /\ FilesHoldDeclaredSize )
           => Len(cursors[c].out) = sizeOnly

C3_Witness ==
    /\ tar.status = "constructed"
    /\ sizeOnly # NoValue
    /\ Finished(1)
    /\ cursors[1].startOffset = 0
    /\ FilesHoldDeclaredSize
    /\ Len(entries) >= 2
    /\ Len(cursors[1].out) > EndMarkerSize

\* C9: a cursor that is no longer advanced (exhausted, failed or abandoned)
\* has no file handle left open.
C9_HandlesReleased ==
    \A c \in Cursors :
        cursors[c].status \in {"done", "failed", "abandoned"} => handles[c] = {}

\* The name field of a header: bytes 0..99 up to the first NUL.
NameField(header) ==
    LET nuls == { i \in 1..NameFieldSize : header[i] = 0 }
        end == IF nuls = {} THEN NameFieldSize
               ELSE (CHOOSE i \in nuls : \A j \in nuls : i <= j) - 1
    IN  SubSeq(header, 1, end)

SafeNameBytes(bytes) ==
    /\ Len(bytes) \in 1..NameFieldSize
    /\ \A i \in 1..Len(bytes) : SafeChar(bytes[i])

\* C10: a stream is constructed only from names that are non-empty, at most
\* 100 bytes long and made of safe characters, and those are the names in its
\* headers.
C10_OnlySafeNames ==
    tar.status = "constructed" =>
        \A i \in 1..Len(entries) :
            /\ SafeNameBytes(Utf8Bytes(entries[i].name))
            /\ SafeNameBytes(NameField(tar.layout[i].header))

(***************************************************************************)
(* The analyze_media tool: preparing the upload.                           *)
(***************************************************************************)
Err(message) == [kind |-> "error", status |-> 0, message |-> message]
HttpErr(status) == [kind |-> "http", status |-> status, message |-> "http"]

basename(path) == Disk[path].filename

\* path.extname: from the last dot of the name, unless the name has no dot or
\* only a leading one.
extname(filename) ==
    LET dots == { i \in 1..Len(filename) : filename[i] = 46 }
        last == CHOOSE i \in dots : \A j \in dots : j <= i
    IN  IF dots = {} THEN <<>>
        ELSE IF last = 1 THEN <<>>
        ELSE SubSeq(filename, last, Len(filename))

toLowerCase(str) == [i \in 1..Len(str) |-> IF str[i] \in 65..90 THEN str[i] + 32 ELSE str[i]]

\* mime-types lookup, by the lower-cased extension of the name.
mimeLookup(filename) ==
    LET ext == toLowerCase(extname(<<120, 46>> \o filename))
    IN  IF ext = <<46, 112, 110, 103>> THEN <<105, 109, 97, 103, 101, 47, 112, 110, 103>>
        ELSE IF ext \in {<<46, 106, 112, 103>>, <<46, 106, 112, 101, 103>>} THEN <<105, 109, 97, 103, 101, 47, 106, 112, 101, 103>>
        ELSE IF ext = <<46, 103, 105, 102>> THEN <<105, 109, 97, 103, 101, 47, 103, 105, 102>>
        ELSE IF ext = <<46, 119, 101, 98, 112>> THEN <<105, 109, 97, 103, 101, 47, 119, 101, 98, 112>>
        ELSE IF ext = <<46, 116, 120, 116>> THEN <<116, 101, 120, 116, 47, 112, 108, 97, 105, 110>>
        ELSE <<>>

detectMimeType(path) ==
    LET detected == mimeLookup(basename(path))
    IN  IF Trim(detected) # <<>> THEN Trim(detected)
        ELSE <<97, 112, 112, 108, 105, 99, 97, 116, 105, 111, 110, 47, 111, 99, 116, 101, 116, 45, 115, 116, 114, 101, 97, 109>>

startsWith(str, prefix) ==
    Len(str) >= Len(prefix) /\ SubSeq(str, 1, Len(prefix)) = prefix

IsImage(path) == startsWith(toLowerCase(detectMimeType(path)), <<105, 109, 97, 103, 101, 47>>)

\* assertReadableFile: the error it throws, or NoError.
ReadableError(path) ==
    IF ~Disk[path].exists THEN Err("File not found")
    ELSE IF ~Disk[path].isFile THEN Err("Not a file")
    ELSE IF ~Disk[path].readable THEN Err("EACCES: permission denied, open")
    ELSE NoError

\* Mutant: only the first path is validated.
ValidationError_FirstOnly(filePaths, i) ==
    IF i > 1 THEN NoError
    ELSE IF ReadableError(filePaths[i]) # NoError THEN ReadableError(filePaths[i])
    ELSE IF ~IsImage(filePaths[i]) THEN Err("paths must contain only image files")
    ELSE NoError

\* The first error of the validation loop over the input paths, or NoError.
RECURSIVE ValidationError(_, _)
ValidationError(filePaths, i) ==
    IF i > Len(filePaths) THEN NoError
    ELSE IF ReadableError(filePaths[i]) # NoError THEN ReadableError(filePaths[i])
    ELSE IF ~IsImage(filePaths[i]) THEN Err("paths must contain only image files")
    ELSE ValidationError(filePaths, i + 1)

\* Number.prototype.toString(10), as code points.
RECURSIVE toDecimal(_)
toDecimal(n) ==
    IF n < 10 THEN <<48 + n>> ELSE toDecimal(n \div 10) \o <<48 + (n % 10)>>

\* Mutant: the entry names count from zero.
EntryName_ZeroBased(path, i) ==
    padStart(toDecimal(i - 1), 6, 48) \o toLowerCase(extname(basename(path)))

\* The archive entry name of the i-th input path (1-based).
EntryName(path, i) ==
    LET extRaw == toLowerCase(extname(basename(path)))
        ext == IF extRaw # <<>>
                  /\ \A k \in 1..Len(extRaw) :
                         extRaw[k] \in 97..122 \/ extRaw[k] \in 48..57 \/ extRaw[k] = 46
                 THEN extRaw
                 ELSE <<46, 105, 109, 103>>
    IN  padStart(toDecimal(i), 6, 48) \o ext

\* JSON.stringify of a string that needs no escaping.
JsonString(str) == <<34>> \o str \o <<34>>

ManifestItem(path, i) ==
       <<123, 34, 105, 110, 100, 101, 120, 34, 58>> \o toDecimal(i)
    \o <<44, 34, 110, 97, 109, 101, 34, 58>> \o JsonString(EntryName(path, i))
    \o <<44, 34, 102, 105, 108, 101, 110, 97, 109, 101, 34, 58>> \o JsonString(basename(path))
    \o <<44, 34, 99, 111, 110, 116, 101, 110, 116, 95, 116, 121, 112, 101, 34, 58>> \o JsonString(detectMimeType(path))
    \o <<44, 34, 115, 105, 122, 101, 95, 98, 121, 116, 101, 115, 34, 58>> \o toDecimal(Disk[path].statSize)
    \o <<125>>

RECURSIVE ManifestItems(_, _)
ManifestItems(filePaths, i) ==
    IF i > Len(filePaths) THEN <<>>
    ELSE (IF i > 1 THEN <<44>> ELSE <<>>) \o ManifestItem(filePaths[i], i)
         \o ManifestItems(filePaths, i + 1)

\* Buffer.from(JSON.stringify(manifest), "utf8")
ManifestBuffer(filePaths) ==
    Utf8Bytes(
           <<123, 34, 116, 121, 112, 101, 34, 58, 34, 101, 110, 114, 105, 118, 105, 115, 105, 111, 110, 95, 109, 101, 100, 105, 97, 95, 115, 101, 116, 34, 44, 34, 118, 101, 114, 115, 105, 111, 110, 34, 58, 49, 44, 34, 109, 101, 100, 105, 97, 95, 116, 121, 112, 101, 34, 58, 34, 105, 109, 97, 103, 101, 95, 115, 101, 116, 34, 44, 34, 105, 116, 101, 109, 115, 34, 58, 91>>
        \o ManifestItems(filePaths, 1)
        \o <<93, 125>>)

\* The entries of the media-set archive: the manifest, then one per input path.
\* Mutant: the manifest is appended after the per-file entries.
MediaSetEntries_ManifestLast(filePaths) ==
    [i \in 1..Len(filePaths) |->
         FileEntry(EntryName(filePaths[i], i), filePaths[i], Disk[filePaths[i]].statSize)]
    \o <<BufferEntry(ManifestName, ManifestBuffer(filePaths))>>

MediaSetEntries(filePaths) ==
    <<BufferEntry(ManifestName, ManifestBuffer(filePaths))>>
    \o [i \in 1..Len(filePaths) |->
            FileEntry(EntryName(filePaths[i], i), filePaths[i], Disk[filePaths[i]].statSize)]

(***************************************************************************)
(* The analyze_media tool: the upload loops and the retry policy.          *)
(***************************************************************************)
MaxAttempts == 5
BackoffBaseMs == 1000
BackoffCapMs == 10000

NonRetryableStatuses == {400, 401, 403, 404, 410, 413}

\* Mutant: 409 is taken for one more client error that is not retried.
IsNonRetryable_With409(status) == status \in NonRetryableStatuses \cup {409}

\* Mutant: the list of statuses that are not retried stops after 404.
IsNonRetryable_UpTo404(status) == status \in {400, 401, 403, 404}

IsNonRetryable(status) == status \in NonRetryableStatuses

RECURSIVE Pow2(_)
Pow2(n) == IF n <= 0 THEN 1 ELSE 2 * Pow2(n - 1)

\* Mutant: the delay grows by the base delay each attempt.
backoffMs_Linear(attempt) == Min(BackoffBaseMs * attempt, BackoffCapMs)

backoffMs(attempt) == Min(BackoffBaseMs * Pow2(attempt - 1), BackoffCapMs)

Multi == Len(paths) > 1

\* Mutant: after the error the attempt goes on to analyze.
Raised_ThenAnalyze(u, error) == [u EXCEPT !.pc = "analyze", !.error = error, !.fileOpen = FALSE]

\* An exception leaves execute: a for-await loop that is left returns its
\* generator, and uploadFileResumable's finally closes its handle.
Raised(u, error) == [u EXCEPT !.pc = "failed", !.error = error, !.fileOpen = FALSE]

ReturnedCursors ==
    IF cursors[1].status \in {"yielded", "running"}
      THEN [cursors EXCEPT ![1].status = "abandoned"]
      ELSE cursors

\* Mutant: the loop's end goes to analyze without the completion check.
AfterLoop_NoCheck(u) == [u EXCEPT !.pc = "analyze", !.fileOpen = FALSE]

\* After the loop of either path: the completion check, then analyze.
AfterLoop(u) ==
    IF u.offset # u.total
      THEN Raised(u, Err("Upload incomplete"))
      ELSE [u EXCEPT !.pc = "analyze", !.fileOpen = FALSE]

\* A call of uploadChunkWithRetry(client, uploadId, offset, chunk, timeoutMs).
CallUpload(u, offset, chunk) ==
    [u EXCEPT !.pc = "append", !.expectedOffset = offset, !.chunk = chunk,
              !.firstDeclared = IF @ = NoValue THEN offset ELSE @,
              !.attempt = 1, !.sent = 0, !.waits = 0, !.onlyConflicts = TRUE,
              !.delay = 0, !.lastError = NoError]

\* Mutant: the rest of the file is read as one chunk.
FileLoop_NoLimit(u) ==
    IF u.offset < u.total
      THEN LET read == FileRead(paths[1], u.total - u.offset, u.offset)
           IN  IF Len(read) <= 0 THEN AfterLoop(u) ELSE CallUpload(u, u.offset, read)
      ELSE AfterLoop(u)

\* uploadFileResumable: the head of its loop up to the next request.
FileLoop(u) ==
    IF u.offset < u.total
      THEN LET nextSize == Min(u.chunkSize, u.total - u.offset)
               read == FileRead(paths[1], nextSize, u.offset)
           IN  IF Len(read) <= 0 THEN AfterLoop(u) ELSE CallUpload(u, u.offset, read)
      ELSE AfterLoop(u)

\* uploadImageSetAsMediaSetTar: the head of its outer loop; a pass starts a
\* fresh generator at the current offset.
TarLoop(u) ==
    IF u.offset < u.total
      THEN [u EXCEPT !.pc = "pull", !.madeProgress = FALSE]
      ELSE AfterLoop(u)

TarLoopCursors(u) ==
    IF u.offset < u.total
      THEN [cursors EXCEPT ![1] = StartedCursor(u.offset, u.chunkSize)]
      ELSE cursors

\* Mutant: the pass is left at the end of the archive only.
LeavesPass_AtEndOnly(u, nextOffset) == nextOffset >= u.total

\* The tar loop's test after a chunk: leave the pass on a resync or at the end.
LeavesPass(u, nextOffset) ==
    \/ nextOffset # u.expectedOffset + Len(u.chunk)
    \/ nextOffset >= u.total

\* Mutant: the loop advances its offset by the length of the chunk it sent.
Returned_LocalAdvance(u, nextOffset) ==
    LET v == [u EXCEPT !.offset = u.expectedOffset + Len(u.chunk), !.madeProgress = TRUE]
    IN  IF ~Multi THEN FileLoop(v)
        ELSE IF LeavesPass(u, nextOffset) THEN TarLoop(v)
        ELSE [v EXCEPT !.pc = "pull"]

\* Mutant: the loop keeps its own offset after a call.
Returned_KeepOffset(u, nextOffset) ==
    LET v == [u EXCEPT !.madeProgress = TRUE]
    IN  IF ~Multi THEN FileLoop(v)
        ELSE IF LeavesPass(u, nextOffset) THEN TarLoop(v)
        ELSE [v EXCEPT !.pc = "pull"]

\* uploadChunkWithRetry returned nextOffset to the loop that called it.
Returned(u, nextOffset) ==
    LET v == [u EXCEPT !.offset = nextOffset, !.madeProgress = TRUE]
    IN  IF ~Multi THEN FileLoop(v)
        ELSE IF LeavesPass(u, nextOffset) THEN TarLoop(v)
        ELSE [v EXCEPT !.pc = "pull"]

\* Mutant: the loop goes on with the same generator whatever offset returned.
ReturnedTo_KeepCursor(u, nextOffset) ==
    IF ~Multi THEN cursors
    ELSE [cursors EXCEPT ![1] = EnterChunk(cursors[1])]

ReturnedTo(u, nextOffset) ==
    IF ~Multi THEN cursors
    ELSE IF LeavesPass(u, nextOffset)
      THEN LET left == [cursors EXCEPT ![1].status = "abandoned"]
               v == [u EXCEPT !.offset = nextOffset]
           IN  IF v.offset < v.total
                 THEN [left EXCEPT ![1] = StartedCursor(v.offset, v.chunkSize)]
                 ELSE left
    ELSE [cursors EXCEPT ![1] = EnterChunk(cursors[1])]

\* Mutant: the attempt ceiling is tested one attempt late.
Caught_OneMore(u, error) ==
    IF error.kind = "http" /\ IsNonRetryable(error.status)
      THEN Raised(u, error)
    ELSE IF u.attempt > MaxAttempts
      THEN Raised(u, error)
    ELSE [u EXCEPT !.pc = "backoff", !.lastError = error,
                   !.delay = backoffMs(u.attempt), !.waits = @ + 1]

\* The catch block of uploadChunkWithRetry after its 409 branch.
Caught(u, error) ==
    IF error.kind = "http" /\ IsNonRetryable(error.status)
      THEN Raised(u, error)
    ELSE IF u.attempt = MaxAttempts
      THEN Raised(u, error)
    ELSE [u EXCEPT !.pc = "backoff", !.lastError = error,
                   !.delay = backoffMs(u.attempt), !.waits = @ + 1]

CaughtCursors(u, error) ==
    IF Caught(u, error).pc = "failed" THEN ReturnedCursors ELSE cursors

\* Mutant: the 409 branch returns whatever offset the re-query reports.
ResyncTo_Always(actual, offset) == TRUE

\* The 409 branch returns the re-queried offset when it is not the declared one.
ResyncTo(actual, offset) == actual # offset

\* Mutant: the session takes a chunk at whatever offset it declares.
ServerAccepts_Any == server.id = up.uploadId

\* The session takes the chunk when the declared offset is its own offset.
ServerAccepts == server.id = up.uploadId /\ server.offset = up.expectedOffset

\* The bytes a broken connection delivered before it broke, and how many
\* times one session misbehaves (a connection that breaks in the middle of a
\* body, an answer with an offset that is not the session's).
PartialTake == 100
MaxBroken == 1

\* The session stores the first n bytes of the request body.
ServerTook(n) ==
    [server EXCEPT !.offset = @ + n, !.accepted = @ \o SubSeq(up.chunk, 1, n),
                   !.lastDeclared = up.expectedOffset,
                   !.broken = IF n < Len(up.chunk) THEN @ + 1 ELSE @]

ServerAppended == ServerTook(Len(up.chunk))

\* An append request went out and was not answered 409.
Sent(u) == [u EXCEPT !.sent = @ + 1, !.onlyConflicts = FALSE]

(***************************************************************************)
(* Actions of the upload.                                                  *)
(***************************************************************************)
Prepare ==
    /\ up.pc = "start"
    /\ IF Len(paths) = 0
         THEN /\ up' = Raised(up, Err("Provide either 'path' or 'paths'."))
              /\ UNCHANGED <<entries, tar, sizeOnly>>
       ELSE IF Multi
         THEN IF ValidationError(paths, 1) # NoError
                THEN /\ up' = Raised(up, ValidationError(paths, 1))
                     /\ UNCHANGED <<entries, tar, sizeOnly>>
                ELSE LET es == MediaSetEntries(paths)
                         tarSizeBytes == computeTarSizeBytes(es)
                         t == TarStreamOf(es)
                     IN  /\ entries' = es
                         /\ sizeOnly' = tarSizeBytes
                         /\ tar' = t
                         /\ up' = IF t.status = "invalid"
                                    THEN Raised(up, Err("Invalid tar entry name"))
                                  ELSE IF t.totalSizeBytes # tarSizeBytes
                                    THEN Raised(up, Err("Internal error: tar size mismatch."))
                                  ELSE [up EXCEPT !.pc = "create", !.total = tarSizeBytes]
       ELSE /\ up' = IF ReadableError(paths[1]) # NoError
                       THEN Raised(up, ReadableError(paths[1]))
                       ELSE [up EXCEPT !.pc = "create", !.total = Disk[paths[1]].statSize]
            /\ UNCHANGED <<entries, tar, sizeOnly>>
    /\ UNCHANGED <<cursors, handles, paths, tool, server>>

\* Mutant: the requests of every attempt carry one fixed upload id.
uploadIdOf_Fixed(session) == "u-700"

\* The upload id the attempt keeps for its requests: session.upload_id.
uploadIdOf(session) == session.upload_id

\* client.createUploadSession answers with an upload id and a chunk size hint;
\* the session starts at the offset the server holds for it.
CreateUploadSession(session, startsAt) ==
    /\ up.pc = "create"
    /\ server' = [created |-> TRUE, id |-> session.upload_id,
                  hint |-> session.chunk_size_bytes, declared |-> up.total,
                  base |-> startsAt, offset |-> startsAt, accepted |-> <<>>,
                  lastDeclared |-> NoValue, broken |-> 0]
    /\ up' = [up EXCEPT !.pc = "query", !.chunkSize = Max(1, session.chunk_size_bytes),
                        !.uploadId = uploadIdOf(session), !.fileOpen = ~Multi]
    /\ UNCHANGED <<tarVars, paths, tool>>

CreateUploadSessionFails(error) ==
    /\ up.pc = "create"
    /\ up' = Raised(up, error)
    /\ UNCHANGED <<tarVars, paths, tool, server>>

\* Mutant: only a negative offset is refused.
InvalidServerOffset_NegativeOnly(u) == u.offset < 0

\* uploadImageSetAsMediaSetTar: the test of the first queried offset.
InvalidServerOffset(u) == u.offset < 0 \/ u.offset > u.total

\* The first client.getUploadOffset of the attempt, and the entry into the
\* loop.  getUploadOffset returns the Upload-Offset header when it is a
\* number that is not negative.
GetUploadOffset ==
    /\ up.pc = "query"
    /\ server.id = up.uploadId
    /\ server.offset >= 0
    /\ LET u == [up EXCEPT !.offset = server.offset, !.queried = server.offset]
       IN  IF Multi
             THEN IF InvalidServerOffset(u)
                    THEN /\ up' = Raised(u, Err("Invalid server offset"))
                         /\ UNCHANGED cursors
                    ELSE /\ up' = TarLoop(u)
                         /\ cursors' = TarLoopCursors(u)
             ELSE /\ up' = FileLoop(u)
                  /\ UNCHANGED cursors
    /\ UNCHANGED <<entries, tar, sizeOnly, handles, paths, tool, server>>

GetUploadOffsetFails(error) ==
    /\ up.pc = "query"
    /\ up' = Raised(up, error)
    /\ UNCHANGED <<tarVars, paths, tool, server>>

\* The generator of the current pass runs up to its next yield or its end.
Pull ==
    /\ up.pc = "pull"
    /\ ReadStep(1)

PullFails ==
    /\ up.pc = "pull"
    /\ \E atOpen \in BOOLEAN : ReadFail(1, atOpen)

\* The for-await loop receives a chunk and uploads it.
TakeChunk ==
    /\ up.pc = "pull"
    /\ cursors[1].status = "yielded"
    /\ IF Len(cursors[1].chunk) = 0
         THEN /\ cursors' = [cursors EXCEPT ![1] = EnterChunk(cursors[1])]
              /\ UNCHANGED up
         ELSE /\ up' = CallUpload(up, up.offset, cursors[1].chunk)
              /\ UNCHANGED cursors
    /\ UNCHANGED <<entries, tar, sizeOnly, handles, paths, tool, server>>

\* The generator ended: the pass is over.
PassEnds ==
    /\ up.pc = "pull"
    /\ cursors[1].status = "done"
    /\ IF ~up.madeProgress
         THEN /\ up' = Raised(up, Err("Upload stalled"))
              /\ UNCHANGED cursors
         ELSE /\ up' = TarLoop(up)
              /\ cursors' = TarLoopCursors(up)
    /\ UNCHANGED <<entries, tar, sizeOnly, handles, paths, tool, server>>

\* The generator threw: the error leaves execute.
PassThrows ==
    /\ up.pc = "pull"
    /\ cursors[1].status = "failed"
    /\ up' = Raised(up, Err("read failed"))
    /\ UNCHANGED <<tarVars, paths, tool, server>>

\* An append the session takes and answers with its new offset.
AppendAccepted ==
    /\ up.pc = "append"
    /\ ServerAccepts
    /\ server' = ServerAppended
    /\ up' = Returned(Sent(up), server'.offset)
    /\ cursors' = ReturnedTo(up, server'.offset)
    /\ UNCHANGED <<entries, tar, sizeOnly, handles, paths, tool>>

\* An append answered 2xx with an Upload-Offset r that is not the offset after
\* the chunk: appendUploadChunk returns any r >= 0 it parses.  The session
\* stored nothing.
AppendAnsweredWith(r) ==
    /\ up.pc = "append"
    /\ r >= 0
    /\ server.broken < MaxBroken
    /\ server' = [server EXCEPT !.broken = @ + 1]
    /\ up' = Returned(Sent(up), r)
    /\ cursors' = ReturnedTo(up, r)
    /\ UNCHANGED <<entries, tar, sizeOnly, handles, paths, tool>>

\* An append whose response never arrives (or arrives without a usable
\* Upload-Offset header): if the offsets agreed the session stored the body,
\* or the part of it that arrived before the connection broke.
AppendResponseLost(error, taken) ==
    /\ up.pc = "append"
    /\ taken \in 1..Len(up.chunk)
    /\ taken < Len(up.chunk) => server.broken < MaxBroken
    /\ server' = IF ServerAccepts THEN ServerTook(taken) ELSE server
    /\ up' = Caught(Sent(up), error)
    /\ cursors' = CaughtCursors(Sent(up), error)
    /\ UNCHANGED <<entries, tar, sizeOnly, handles, paths, tool>>

\* An append that never reaches the session.
AppendNotDelivered(error) ==
    /\ up.pc = "append"
    /\ up' = Caught(Sent(up), error)
    /\ cursors' = CaughtCursors(Sent(up), error)
    /\ UNCHANGED <<entries, tar, sizeOnly, handles, paths, tool, server>>

\* An append answered 409: the client asks for the offset next.
AppendConflict ==
    /\ up.pc = "append"
    /\ up' = [up EXCEPT !.pc = "requery", !.sent = @ + 1, !.lastError = HttpErr(409)]
    /\ UNCHANGED <<tarVars, paths, tool, server>>

\* An append answered with another non-2xx status.
AppendRejected(status) ==
    /\ up.pc = "append"
    /\ status # 409
    /\ up' = Caught(Sent(up), HttpErr(status))
    /\ cursors' = CaughtCursors(Sent(up), HttpErr(status))
    /\ UNCHANGED <<entries, tar, sizeOnly, handles, paths, tool, server>>

\* client.getUploadOffset inside the 409 branch.
Requery ==
    /\ up.pc = "requery"
    /\ server.id = up.uploadId
    /\ LET actual == server.offset
       IN  IF ResyncTo(actual, up.expectedOffset)
             THEN /\ up' = Returned([up EXCEPT !.resynced = TRUE], actual)
                  /\ cursors' = ReturnedTo(up, actual)
             ELSE /\ up' = Caught(up, HttpErr(409))
                  /\ cursors' = CaughtCursors(up, HttpErr(409))
    /\ UNCHANGED <<entries, tar, sizeOnly, handles, paths, tool, server>>

\* Mutant: a failed re-query is handled like a failed append.
RequeryFails_Retried(error) ==
    /\ up.pc = "requery"
    /\ up' = Caught([up EXCEPT !.onlyConflicts = FALSE], error)
    /\ cursors' = CaughtCursors(up, error)
    /\ UNCHANGED <<entries, tar, sizeOnly, handles, paths, tool, server>>

\* client.getUploadOffset inside the 409 branch throws: nothing catches it.
RequeryFails(error) ==
    /\ up.pc = "requery"
    /\ up' = Raised([up EXCEPT !.onlyConflicts = FALSE], error)
    /\ cursors' = ReturnedCursors
    /\ UNCHANGED <<entries, tar, sizeOnly, handles, paths, tool, server>>

\* The backoff timer fires: the next attempt.
BackoffDone ==
    /\ up.pc = "backoff"
    /\ up' = [up EXCEPT !.pc = "append", !.attempt = @ + 1, !.lastError = NoError]
    /\ UNCHANGED <<tarVars, paths, tool, server>>

Analyze ==
    /\ up.pc = "analyze"
    /\ server.id = up.uploadId
    /\ up' = [up EXCEPT !.pc = "done", !.analyzed = TRUE]
    /\ UNCHANGED <<tarVars, paths, tool, server>>

(***************************************************************************)
(* Inputs of the upload specification.                                     *)
(***************************************************************************)
AllPathLists ==
    { <<>>,
      <<"big">>, <<"short">>, <<"empty">>, <<"gone">>, <<"dir">>,
      <<"a", "b">>, <<"big", "empty">>, <<"a", "short">>,
      <<"a", "notes">>, <<"gone", "b">>, <<"dir", "b">>, <<"a", "locked">>,
      <<"a", "block", "b">> }

PathLists == { ps \in AllPathLists : Len(ps) + 1 <= MaxEntries }

\* The sessions a create request can be answered with.
Sessions ==
    { [upload_id |-> "u-700", chunk_size_bytes |-> 700],
      [upload_id |-> "u-2048", chunk_size_bytes |-> 2048] }

ChunkHints == { session.chunk_size_bytes : session \in Sessions }

\* Offsets a session can report when the attempt begins.
StartOffsets == {-1, 0, 300, up.total, up.total + 7}

NetworkError == Err("network")
MissingHeader == Err("Missing Upload-Offset header in server response.")

OtherStatuses == {500}

UploadInit ==
    /\ paths \in PathLists
    /\ up = IdleUpload
    /\ server = NoSession
    /\ tool = IdleTool
    /\ entries = <<>>
    /\ tar = NewTar
    /\ sizeOnly = NoValue
    /\ cursors = [c \in Cursors |-> IdleCursor]
    /\ handles = [c \in Cursors |-> {}]

UploadNext ==
    \/ Prepare
    \/ \E session \in Sessions : \E startsAt \in StartOffsets :
           CreateUploadSession(session, startsAt)
    \/ /\ up.total >= TailBytes
       /\ CreateUploadSession([upload_id |-> "u-0", chunk_size_bytes |-> 0],
                              up.total - TailBytes)
    \/ CreateUploadSessionFails(HttpErr(413))
    \/ GetUploadOffset
    \/ GetUploadOffsetFails(HttpErr(404))
    \/ server.offset < 0 /\ GetUploadOffsetFails(Err("Invalid Upload-Offset header"))
    \/ Pull
    \/ PullFails
    \/ TakeChunk
    \/ PassEnds
    \/ PassThrows
    \/ AppendAccepted
    \/ \E error \in {NetworkError, MissingHeader} :
           \E taken \in {Len(up.chunk), PartialTake} : AppendResponseLost(error, taken)
    \/ \E r \in {up.expectedOffset, up.expectedOffset - PartialTake} : AppendAnsweredWith(r)
    \/ AppendNotDelivered(NetworkError)
    \/ AppendConflict
    \/ \E status \in NonRetryableStatuses \cup OtherStatuses : AppendRejected(status)
    \/ Requery
    \/ \E error \in {NetworkError, HttpErr(503)} : RequeryFails(error)
    \/ BackoffDone
    \/ Analyze

SpecUpload == UploadInit /\ [][UploadNext]_vars

\* The upload against a session that follows the protocol and does not
\* expire: it starts at an offset within the declared size, stores a body only
\* at its own offset, answers 409 exactly when the declared offset is not its
\* own, and answers every offset query.  A chunk suffers fewer than
\* MaxAttempts transient failures in a row (lost responses, with the body
\* stored whole or in part or not at all, and 500 answers).  The client's
\* continuations and the server's answers are scheduled: weak fairness of the
\* steps that follow the local preparation.
UploadFairNext ==
    \/ Prepare
    \/ \E session \in Sessions : \E startsAt \in {0, up.total} :
           CreateUploadSession(session, startsAt)
    \/ GetUploadOffset
    \/ Pull
    \/ TakeChunk
    \/ PassEnds
    \/ ServerAccepts /\ AppendAccepted
    \/ /\ up.attempt < MaxAttempts
       /\ \E taken \in {Len(up.chunk), PartialTake} : AppendResponseLost(NetworkError, taken)
    \/ up.attempt < MaxAttempts /\ AppendNotDelivered(NetworkError)
    \/ up.attempt < MaxAttempts /\ AppendRejected(500)
    \/ ~ServerAccepts /\ AppendConflict
    \/ Requery
    \/ BackoffDone
    \/ Analyze

SpecUploadFair ==
    /\ UploadInit
    /\ [][UploadFairNext]_vars
    /\ WF_vars(up.pc # "start" /\ UploadFairNext)

(***************************************************************************)
(* Properties of the upload.                                               *)
(***************************************************************************)
\* The content of entry le of a layout, as the files hold it.
EntryContent(le) ==
    IF le.source.type = "buffer" THEN le.source.buffer
    ELSE [i \in 1..le.contentSize |-> FileByte(le.source.path, i - 1)]

\* The archive of a layout: per entry its header, content and padding, then
\* the end marker.
RECURSIVE ArchiveOf(_, _)
ArchiveOf(layout, i) ==
    IF i > Len(layout) THEN Zeros(EndMarkerSize)
    ELSE layout[i].header \o EntryContent(layout[i]) \o Zeros(layout[i].paddingSize)
         \o ArchiveOf(layout, i + 1)

\* The byte sequence an upload sends: the archive, or the single file.
Source ==
    IF Multi THEN ArchiveOf(tar.layout, 1)
    ELSE [i \in 1..Disk[paths[1]].size |-> FileByte(paths[1], i - 1)]

\* A call of uploadChunkWithRetry is in progress.
InCall == up.pc \in {"append", "requery", "backoff"}

\* C1: every append request carries the source bytes [o, o + len) for the
\* offset o it declares, and the bytes the session has accepted are the source
\* bytes from the session's first offset up to its current offset (files
\* holding the sizes the archive declares for them).
C1_AppendsCarrySourceBytes ==
    (server.created /\ (Multi => FilesHoldDeclaredSize)) =>
        LET source == Source
            o == up.expectedOffset
        IN  /\ InCall => /\ Len(up.chunk) > 0
                         /\ o + Len(up.chunk) <= Len(source)
                         /\ up.chunk = SubSeq(source, o + 1, o + Len(up.chunk))
            /\ server.offset = server.base + Len(server.accepted)
            /\ server.accepted = SubSeq(source, server.base + 1, server.offset)

\* C1 witness: an archive upload that a re-queried offset has moved off the
\* chunk grid sends a further chunk, the session holding more than one chunk.
C1_Witness ==
    /\ Multi /\ FilesHoldDeclaredSize
    /\ up.resynced /\ up.pc = "append"
    /\ server.base = 0 /\ server.broken > 0
    /\ Len(server.accepted) > up.chunkSize
    /\ up.expectedOffset % up.chunkSize # 0

OnlyConflicts ==
    /\ up.sent >= 1 /\ up.onlyConflicts /\ up.pc # "requery"
    /\ server.accepted = <<>> /\ ~up.resynced

C6_NonRetryableRaised ==
    [][/\ \A status \in NonRetryableStatuses :
              AppendRejected(status) =>
                  /\ up'.pc = "failed"
                  /\ up'.error = HttpErr(status)
                  /\ up'.waits = up.waits
                  /\ up'.sent = up.sent + 1
       /\ up.pc = "failed" => up' = up /\ server' = server]_vars

\* C6 witness: the first request for a chunk was answered 413 and the upload
\* ended with it.
C6_Witness ==
    /\ up.pc = "failed" /\ up.error = HttpErr(413)
    /\ up.sent = 1 /\ up.waits = 0

\* The failures of an append that are retried.
RetryableErrors == {NetworkError, MissingHeader} \cup {HttpErr(s) : s \in OtherStatuses}

\* The append attempt in progress fails with error e: the client's side of
\* AppendNotDelivered, AppendResponseLost and AppendRejected.
AttemptFails(e) ==
    /\ up.pc = "append"
    /\ up' = Caught(Sent(up), e)

\* C7: any other failure of an append is retried with the same chunk at the
\* same offset after a backoff; one call sends at most five requests; when the
\* fifth fails too the call raises the error of that attempt.
C7_RetriedUpToFive ==
    [][/\ up'.sent <= MaxAttempts
       /\ \A e \in RetryableErrors :
              AttemptFails(e) =>
                  IF up.attempt < MaxAttempts
                    THEN /\ up'.pc = "backoff"
                         /\ up'.lastError = e
                         /\ up'.delay = backoffMs(up.attempt)
                    ELSE /\ up'.pc = "failed"
                         /\ up'.error = e
       /\ up.pc = "backoff" => /\ up'.pc = "append"
                               /\ up'.attempt = up.attempt + 1
                               /\ up'.chunk = up.chunk
                               /\ up'.expectedOffset = up.expectedOffset]_vars

\* C7 witness: five requests for one chunk failed and the call raised.
C7_Witness ==
    /\ up.pc = "failed" /\ up.error = NetworkError
    /\ up.sent = MaxAttempts /\ up.waits = MaxAttempts - 1
    /\ server.accepted # <<>>

\* C8: analyze is reached only with the offset equal to the declared total;
\* a loop that ends with another offset fails with 'Upload incomplete' and
\* analyze is not called.
C8_AnalyzeOnlyWhenComplete ==
    /\ (up.pc \in {"analyze", "done"} \/ up.analyzed) =>
           /\ up.offset = up.total
           /\ server.offset = server.declared
    /\ up.error = Err("Upload incomplete") =>
           /\ up.pc = "failed"
           /\ up.offset # up.total
           /\ ~up.analyzed

\* C8 witness: a file shorter than its stat size has left the loop early and
\* the upload failed as incomplete with part of the file accepted.
C8_Witness ==
    /\ up.pc = "failed" /\ up.error = Err("Upload incomplete")
    /\ server.accepted # <<>> /\ ~up.analyzed

(***************************************************************************)
(* Further properties of the archive.                                      *)
(***************************************************************************)
\* C11: the total length of a constructed archive is a multiple of 512, every
\* entry header starts at a multiple of 512 where the previous entry's padded
\* content ends, and a read from offset 0 (the files holding their declared
\* size) ends with 1024 zero bytes that begin where the last entry's padded
\* content ends.
C11_BlocksAndEndMarker ==
    tar.status = "constructed" =>
        LET layout == tar.layout
            contentEnd(i) == layout[i].contentStart + layout[i].contentSize
                             + layout[i].paddingSize
            lastEnd == IF layout = <<>> THEN 0 ELSE contentEnd(Len(layout))
        IN  /\ tar.totalSizeBytes % HeaderSize = 0
            /\ tar.totalSizeBytes = lastEnd + EndMarkerSize
            /\ \A i \in 1..Len(layout) :
                   /\ layout[i].headerStart % HeaderSize = 0
                   /\ layout[i].headerStart = IF i = 1 THEN 0 ELSE contentEnd(i - 1)
            /\ \A c \in Cursors :
                   (Finished(c) /\ cursors[c].startOffset = 0 /\ FilesHoldDeclaredSize)
                   => LET out == cursors[c].out
                      IN  /\ Len(out) = lastEnd + EndMarkerSize
                          /\ SubSeq(out, lastEnd + 1, Len(out)) = Zeros(EndMarkerSize)

\* C11 witness: a full read of an archive whose last entry needs padding has
\* ended.
C11_Witness ==
    /\ tar.status = "constructed"
    /\ Len(entries) >= 2
    /\ tar.layout[Len(tar.layout)].paddingSize > 0
    /\ Finished(1) /\ cursors[1].startOffset = 0
    /\ FilesHoldDeclaredSize
    /\ Len(cursors[1].out) > EndMarkerSize

(***************************************************************************)
(* Headers: one entry of any offered name, declared size and modification  *)
(* time is handed to the constructor.                                      *)
(***************************************************************************)
HeaderNames ==
    { ManifestName, EntryA.name, <<97>>, <<65, 45, 98, 95, 57, 46, 90>>,
      LongName(99), LongName(100) }
    \cup NameInputs

HeaderSizes ==
    {0, 1, 7, 8, 511, 512, 4096, 262143, 262144, 16777215, 2147481599, 2147481600}

HeaderMtimes == {0, NowSeconds}

HeaderEntry(name, sizeBytes, mtimeSeconds) ==
    [FileEntry(name, "a", sizeBytes) EXCEPT !.mtimeSeconds = mtimeSeconds]

HeaderInit ==
    /\ entries \in { <<HeaderEntry(n, sz, m)>> :
                         n \in HeaderNames, sz \in HeaderSizes, m \in HeaderMtimes }
    /\ tar = NewTar
    /\ sizeOnly = NoValue
    /\ cursors = [c \in Cursors |-> IdleCursor]
    /\ handles = [c \in Cursors |-> {}]
    /\ paths = <<>>
    /\ up = IdleUpload
    /\ server = NoSession
    /\ tool = IdleTool

HeaderNext == Construct \/ ComputeSize

SpecHeader == HeaderInit /\ [][HeaderNext]_vars

\* The text of a header field: its bytes up to the first NUL.
FieldText(header, offset, length) ==
    LET nuls == { i \in 1..length : header[offset + i] = 0 }
        end == IF nuls = {} THEN length
               ELSE (CHOOSE i \in nuls : \A j \in nuls : i <= j) - 1
    IN  SubSeq(header, offset + 1, offset + end)

IsOctalText(text) == \A i \in 1..Len(text) : text[i] \in 48..55

\* Number.parseInt(text, 8) of octal digits.
RECURSIVE FromOctal(_)
FromOctal(text) ==
    IF text = <<>> THEN 0
    ELSE 8 * FromOctal(SubSeq(text, 1, Len(text) - 1)) + (text[Len(text)] - 48)

\* The sum of the header's bytes with the checksum field read as spaces.
BlankedSum(header) ==
    SumRange([i \in 1..Len(header) |-> IF i - 1 \in 148..155 THEN 32 ELSE header[i]],
             1, Len(header))

\* C12: in every header of a constructed stream, bytes 148..153 are six octal
\* digits, byte 154 is NUL and byte 155 a space, and the digits are the sum of
\* the 512 header bytes with bytes 148..155 taken as spaces; the sum is below
\* 8^6.
C12_ChecksumMatches ==
    tar.status = "constructed" =>
        \A i \in 1..Len(tar.layout) :
            LET header == tar.layout[i].header
                digits == SubSeq(header, 149, 154)
            IN  /\ Len(header) = HeaderSize
                /\ IsOctalText(digits)
                /\ header[155] = 0
                /\ header[156] = 32
                /\ FromOctal(digits) = BlankedSum(header)
                /\ BlankedSum(header) < 262144

\* C12 witness: the header of a 100-byte name with a size of ten octal digits
\* and a checksum that needs a leading zero.
C12_Witness ==
    /\ tar.status = "constructed"
    /\ entries[1].name = LongName(100)
    /\ entries[1].source.sizeBytes = 2147481599
    /\ tar.layout[1].header[149] = 48
    /\ BlankedSum(tar.layout[1].header) > 4096

\* C13: for a name that is non-empty, at most 100 bytes long and made of safe
\* characters, the header's name field up to its first NUL is the name; the
\* size field is eleven octal digits and a NUL, and the digits are the
\* declared content size.
C13_HeaderRoundTrip ==
    tar.status = "constructed" =>
        \A i \in 1..Len(tar.layout) :
            LET header == tar.layout[i].header
                name == Utf8Bytes(entries[i].name)
                sizeText == FieldText(header, 124, 12)
            IN  /\ SafeNameBytes(name) => NameField(header) = name
                /\ Len(sizeText) = 11
                /\ IsOctalText(sizeText)
                /\ FromOctal(sizeText) = ContentSizeOf(entries[i])

\* C13 witness: a name that fills the name field, with the largest size offered.
C13_Witness ==
    /\ tar.status = "constructed"
    /\ SafeNameBytes(Utf8Bytes(entries[1].name))
    /\ Len(entries[1].name) = NameFieldSize
    /\ entries[1].source.sizeBytes = 2147481600
    /\ entries[1].mtimeSeconds = NowSeconds

\* C15: every chunk a cursor yields is non-empty and no longer than
\* max(1, chunkSize), chunkSize being the argument of iterateChunks.
C15_ChunkWithinSize ==
    \A c \in Cursors :
        cursors[c].status = "yielded" =>
            /\ Len(cursors[c].chunk) >= 1
            /\ Len(cursors[c].chunk) <= Max(1, cursors[c].chunkArg)

\* C15 witness: a cursor started with chunk size 0 has yielded a chunk of one
\* byte, after a cursor whose last chunk had exactly the chunk size.
C15_Witness ==
    /\ cursors[2].status = "yielded"
    /\ cursors[2].chunkArg = 0
    /\ Len(cursors[2].chunk) = 1
    /\ cursors[1].status = "done"
    /\ Len(cursors[1].chunk) = cursors[1].chunkArg

(***************************************************************************)
(* Further properties of the upload.                                       *)
(***************************************************************************)
\* C14: in a multi-file upload the archive entry at offset 0 is the manifest,
\* a buffer entry whose header name is 'manifest.json'; the per-file entries
\* follow it in the order of the input paths; and the first block a session
\* that starts at 0 accepts is that manifest header.
C14_ManifestFirst ==
    (Multi /\ tar.status = "constructed") =>
        LET layout == tar.layout
        IN  /\ Len(layout) = Len(paths) + 1
            /\ layout[1].headerStart = 0
            /\ layout[1].source.type = "buffer"
            /\ NameField(layout[1].header) = Utf8Bytes(ManifestName)
            /\ \A i \in 1..Len(paths) :
                   /\ layout[i + 1].source.type = "file"
                   /\ layout[i + 1].source.path = paths[i]
                   /\ layout[i + 1].headerStart > layout[i].headerStart
            /\ (server.created /\ server.base = 0 /\ Len(server.accepted) >= HeaderSize)
                   => NameField(SubSeq(server.accepted, 1, HeaderSize))
                          = Utf8Bytes(ManifestName)

\* C14 witness: a session of a three-file upload that started at 0 holds the
\* first block of the archive.
C14_Witness ==
    /\ Multi /\ tar.status = "constructed"
    /\ Len(paths) >= 2
    /\ server.created /\ server.base = 0
    /\ Len(server.accepted) >= HeaderSize
    /\ up.pc = "done"

\* C16: a pass of the tar loop that ends with the offset not greater than the
\* offset it started at (the start offset of its cursor) raises 'Upload
\* stalled', so that no further pass starts after it.  A pass ends when its
\* generator ends or when a returned offset makes the loop break; a pass left
\* by an exception of the generator or of uploadChunkWithRetry is not meant.
C16_ZeroProgressStalls ==
    [][ LET PassLeft ==
                /\ Multi
                /\ \/ up.pc = "pull" /\ cursors[1].status = "done" /\ up'.pc # "pull"
                   \/ /\ up.pc \in {"append", "requery"}
                      /\ up'.pc \in {"pull", "analyze", "failed"}
                      /\ up'.pc = "failed" =>
                             up'.error.message \in {"Upload stalled", "Upload incomplete"}
                      /\ LeavesPass(up, up'.offset)
        IN  (PassLeft /\ up'.offset <= cursors[1].startOffset)
                => (up'.pc = "failed" /\ up'.error = Err("Upload stalled")) ]_vars

\* C17: when the offset r that uploadChunkWithRetry returns to the tar loop is not expectedOffset + chunk
\* length, the cursor that yielded the chunk is abandoned and, if r is inside
\* the archive, a fresh cursor is started at r; when r is the expected offset
\* inside the archive, the same cursor goes on.  A chunk taken from the cursor
\* is the next append: it declares the current offset, which is the cursor's
\* start plus what it yielded before, and carries the archive bytes from there.
C17_DriftRestartsCursor ==
    [][ /\ ( /\ Multi
              /\ up.pc \in {"append", "requery"}
              /\ \/ up'.pc \in {"pull", "analyze"}
                 \/ up'.pc = "failed" /\ up'.error = Err("Upload incomplete") ) =>
            LET r == up'.offset
                old == cursors[1]
                new == cursors'[1]
            IN  IF r # up.expectedOffset + Len(up.chunk)
                  THEN IF r < up.total
                         THEN /\ up'.pc = "pull"
                              /\ new.startOffset = r /\ new.position = r
                              /\ new.out = <<>> /\ new.status = "running"
                         ELSE new = [old EXCEPT !.status = "abandoned"]
                  ELSE r < up.total =>
                         /\ up'.pc = "pull"
                         /\ new.startOffset = old.startOffset
                         /\ new.out = old.out /\ new.position = r
                         /\ new.status = "running"
        /\ (Multi /\ up.pc = "pull" /\ up'.pc = "append") =>
            LET cur == cursors[1]
            IN  /\ up'.expectedOffset = up.offset
                /\ up'.chunk = cur.chunk
                /\ up.offset = cur.startOffset + Len(cur.out) - Len(cur.chunk)
                /\ FilesHoldDeclaredSize =>
                       cur.chunk = SubSeq(Source, up.offset + 1, up.offset + Len(cur.chunk))
      ]_vars

\* C17 witness: in a session that started at 0, the first chunk of a cursor
\* restarted at an offset returned by a re-query is being appended, after an
\* earlier cursor got two chunks through.
C17_Witness ==
    /\ Multi /\ up.pc = "append" /\ up.resynced
    /\ server.base = 0
    /\ cursors[1].startOffset = up.expectedOffset
    /\ cursors[1].startOffset > 2 * up.chunkSize
    /\ cursors[1].out = up.chunk

\* C18: a multi-file request with a path that is missing, is not a regular
\* file, cannot be opened or is not an image, or whose entries the archive
\* constructor rejects, fails with that error and nothing else happens: no
\* session is created and no chunk is appended.
C18_LocalErrorsBeforeRequests ==
    LET Bad(p) == \/ ~Disk[p].exists
                  \/ ~Disk[p].isFile
                  \/ ~Disk[p].readable
                  \/ ~IsImage(p)
        LocalErrors == {Err("File not found"), Err("Not a file"),
                        Err("EACCES: permission denied, open"),
                        Err("paths must contain only image files"),
                        Err("Invalid tar entry name")}
    IN  /\ (Multi /\ ((\E i \in 1..Len(paths) : Bad(paths[i])) \/ tar.status = "invalid")) =>
               /\ up.pc \in {"start", "failed"}
               /\ up.pc = "failed" => up.error \in LocalErrors
               /\ ~server.created /\ server.accepted = <<>>
               /\ cursors[1].status = "idle"
        /\ (Multi /\ up.pc = "failed" /\ up.error \in LocalErrors) =>
               ~server.created /\ server.accepted = <<>>

\* C18 witness: the request failed on its second path, which exists and is an
\* image file but cannot be opened.
C18_Witness ==
    /\ Multi /\ up.pc = "failed"
    /\ Disk[paths[2]].exists /\ Disk[paths[2]].isFile /\ ~Disk[paths[2]].readable
    /\ IsImage(paths[2])
    /\ up.error = Err("EACCES: permission denied, open")
    /\ ~server.created

\* C19: the session is created with the file size or the precomputed archive
\* total; appends and analyze come only after the attempt's offset query has
\* returned; the first append declares the queried offset; and the offset
\* queries, the appends and analyze carry the upload id the create returned.
C19_CreateQueryAppendAnalyze ==
    LET requesting == up.pc \in {"query", "pull", "append", "requery", "backoff",
                                 "analyze", "done"}
        appending == up.pc \in {"append", "requery", "backoff"}
    IN  /\ requesting => server.created /\ up.uploadId = server.id
        /\ server.created =>
               server.declared = IF Multi THEN sizeOnly ELSE Disk[paths[1]].statSize
        /\ up.queried # NoValue => server.created /\ up.queried = server.base
        /\ up.pc = "query" => up.queried = NoValue /\ up.firstDeclared = NoValue
        /\ (appending \/ server.accepted # <<>> \/ server.broken > 0) =>
               up.firstDeclared # NoValue
        /\ up.firstDeclared # NoValue =>
               up.queried # NoValue /\ up.firstDeclared = up.queried
        /\ (up.pc \in {"analyze", "done"} \/ up.analyzed) => up.queried # NoValue

\* C19 witness: an attempt whose session has the second upload id and whose
\* query returned 300 has appended from there and analyzed.
C19_Witness ==
    /\ up.pc = "done" /\ up.analyzed
    /\ up.uploadId = "u-2048" /\ server.id = "u-2048"
    /\ up.queried = 300 /\ up.firstDeclared = 300
    /\ server.accepted # <<>>

C21_NoRequestAfterFatal ==
    [][ /\ up.error # NoError =>
               /\ up.pc = "failed" /\ ~up.analyzed
               /\ up' = up /\ server' = server
        /\ up'.error # NoError => up'.pc = "failed" /\ ~up'.analyzed
      ]_vars

\* C21 witness: an attempt has failed on the fifth attempt of a chunk, its
\* session holding the chunks appended before.
C21_Witness ==
    /\ up.pc = "failed" /\ up.error = HttpErr(500)
    /\ up.attempt = MaxAttempts
    /\ server.created /\ server.accepted # <<>>
    /\ ~up.analyzed

\* C22: the body of every append request, of a single file or of an archive,
\* has at least one byte, at most max(1, chunk_size_bytes) bytes for the hint
\* the session was created with, and at most the bytes between the declared
\* offset and the declared total.
C22_BodyWithinHint ==
    InCall =>
        /\ Len(up.chunk) >= 1
        /\ Len(up.chunk) <= Max(1, server.hint)
        /\ Len(up.chunk) <= server.declared - up.expectedOffset

\* C22 witness: under a hint of 0 a single-file upload appends its second
\* chunk of one byte.
C22_Witness ==
    /\ InCall /\ ~Multi
    /\ server.hint = 0 /\ Len(up.chunk) = 1
    /\ server.accepted # <<>>

\* C23: the delay waited after the k-th failed attempt of a chunk, k = 1..4, is
\* 1000, 2000, 4000, 8000 ms: twice the delay before, never more than 10000;
\* a call has waited attempt - 1 delays, so none after its fifth attempt.
C23_BackoffDoubles ==
    LET expected == <<1000, 2000, 4000, 8000>>
    IN  /\ up.pc = "backoff" =>
               /\ up.attempt \in 1..4
               /\ up.delay = expected[up.attempt]
               /\ up.delay <= 10000
               /\ up.attempt > 1 => up.delay = 2 * expected[up.attempt - 1]
               /\ up.waits = up.attempt
        /\ up.pc \in {"append", "requery"} => up.waits = up.attempt - 1
        /\ (up.pc = "failed" /\ up.attempt = 5) => up.waits = 4
        /\ up.waits <= 4

\* C23 witness: the fourth failed attempt of a chunk is followed by a wait of
\* 8000 ms.
C23_Witness ==
    /\ up.pc = "backoff"
    /\ up.attempt = 4 /\ up.delay = 8000 /\ up.waits = 4

\* C30: in the layout of a constructed stream every entry has contentStart =
\* headerStart + 512, a padding of 0..511 bytes that fills its content up to a
\* multiple of 512, and totalSize = 512 + contentSize + paddingSize; the first
\* header starts at 0 and every later one where the entry before it ends; the
\* total of the stream is the sum of the entries' total sizes plus 1024.
C30_LayoutArithmetic ==
    tar.status = "constructed" =>
        LET layout == tar.layout
            RECURSIVE SumTotal(_)
            SumTotal(i) == IF i = 0 THEN 0 ELSE layout[i].totalSize + SumTotal(i - 1)
        IN  /\ Len(layout) = Len(entries)
            /\ \A i \in 1..Len(layout) :
                   /\ layout[i].contentSize = ContentSizeOf(entries[i])
                   /\ layout[i].contentStart = layout[i].headerStart + 512
                   /\ layout[i].paddingSize \in 0..511
                   /\ (layout[i].contentSize + layout[i].paddingSize) % 512 = 0
                   /\ layout[i].totalSize
                          = 512 + layout[i].contentSize + layout[i].paddingSize
                   /\ layout[i].headerStart =
                          IF i = 1 THEN 0
                          ELSE layout[i - 1].headerStart + layout[i - 1].totalSize
            /\ tar.totalSizeBytes = SumTotal(Len(layout)) + 1024

\* C30 witness: a constructed stream with an entry of one full block, which
\* needs no padding, followed by an entry that needs padding.
C30_Witness ==
    /\ tar.status = "constructed"
    /\ Len(tar.layout) >= 2
    /\ tar.layout[1].contentSize = 512 /\ tar.layout[1].paddingSize = 0
    /\ tar.layout[2].paddingSize > 0
    /\ tar.layout[2].headerStart = 1024

\* C28: a read of a running cursor either stays in its phase, the offset in
\* the phase not decreasing, or moves from the header to offset 0 of the
\* content of the same entry, from the content to offset 0 of the padding of
\* the same entry, or from the padding to offset 0 of the header of the next
\* entry, which after the last entry is the end marker; the end marker is never
\* left, its offset never passes 1024, and a read at offset 1024 of it yields
\* nothing.
C28_PhaseOrder ==
    [][ \A c \in Cursors :
          (cursors[c].status = "running" /\ cursors'[c] # cursors[c]) =>
            LET s == cursors[c].state
                t == cursors'[c].state
                n == Len(tar.layout)
                to(phase, index) == /\ t.phase = phase /\ t.entryIndex = index
                                    /\ t.phaseOffset = 0
            IN  /\ t.entryIndex >= s.entryIndex
                /\ \/ /\ t.phase = s.phase /\ t.entryIndex = s.entryIndex
                      /\ t.phaseOffset >= s.phaseOffset
                   \/ s.phase = "entry_header" /\ to("entry_content", s.entryIndex)
                   \/ s.phase = "entry_content" /\ to("entry_padding", s.entryIndex)
                   \/ /\ s.phase = "entry_padding" /\ s.entryIndex + 1 < n
                      /\ to("entry_header", s.entryIndex + 1)
                   \/ /\ s.phase = "entry_padding" /\ s.entryIndex + 1 = n
                      /\ to("eof", n)
                /\ s.phase # "eof" => s.entryIndex < n
                /\ s.phase = "eof" =>
                       /\ s.entryIndex = n /\ t.phaseOffset <= EndMarkerSize
                       /\ s.phaseOffset >= EndMarkerSize =>
                              /\ cursors'[c].position = cursors[c].position
                              /\ cursors'[c].parts = cursors[c].parts
                              /\ cursors'[c].out \in
                                     {cursors[c].out, cursors[c].out \o cursors[c].parts}
      ]_vars

\* C28 witness: a cursor that went through the three phases of two entries is
\* asked for more after the end marker has given its 1024 bytes.
C28_Witness ==
    \E c \in Cursors :
        /\ cursors[c].status = "running"
        /\ cursors[c].startOffset = 0
        /\ Len(tar.layout) = 2
        /\ cursors[c].state.phase = "eof"
        /\ cursors[c].state.phaseOffset = EndMarkerSize
        /\ cursors[c].emptyReadsInARow > 1

\* C29: a cursor started at offset o touches the file of an entry only when a
\* content byte of it at or after o is wanted: the content of the entry ends
\* after o, and the read is at a position of the file not before o -
\* contentStart; the entries a cursor has opened are file entries with content
\* that ends after o, each opened once, in the order of the archive.
C29_FilesFromOffsetOnce ==
    \A c \in Cursors :
        LET cur == cursors[c]
            o == Max(0, cur.startOffset)
            opens == cur.opens
        IN  /\ AtFileRead(cur) =>
                   LET entry == tar.layout[cur.state.entryIndex + 1]
                   IN  /\ entry.contentStart + entry.contentSize > o
                       /\ cur.state.phaseOffset >= o - entry.contentStart
                       /\ cur.state.phaseOffset < entry.contentSize
            /\ \A k \in 1..Len(opens) :
                   LET entry == tar.layout[opens[k] + 1]
                   IN  /\ entry.source.type = "file"
                       /\ entry.contentSize > 0
                       /\ entry.contentStart + entry.contentSize > o
                       /\ k > 1 => opens[k] > opens[k - 1]
            /\ handles[c] # {} => opens # <<>>

\* C29 witness: a cursor resumed inside the content of the second file of an
\* archive has finished and has opened that file only.
C29_Witness ==
    \E c \in Cursors :
        /\ Finished(c)
        /\ Len(tar.layout) >= 3
        /\ tar.layout[2].source.type = "file" /\ tar.layout[2].contentSize > 0
        /\ tar.layout[3].source.type = "file"
        /\ cursors[c].startOffset > tar.layout[3].contentStart
        /\ cursors[c].startOffset < tar.layout[3].contentStart + tar.layout[3].contentSize
        /\ cursors[c].opens = <<2>>

(***************************************************************************)
(* The analyze_media tool call: parseParams, the requests of the client,   *)
(* the lines it logs and the sanitized extraction it returns.              *)
(***************************************************************************)

\* path.isAbsolute of node:path on a POSIX host: the path starts with "/".
isAbsolute_Always(path) == TRUE

isAbsolute(path) == Len(path) > 0 /\ path[1] = 47

\* parseParams(raw), restricted to the `path` and `paths` arguments: every
\* other argument is optional and absent from the objects of the model.
parseParams(raw) ==
    LET Rejected(message) ==
            [ok |-> FALSE, error |-> message, path |-> Undefined, paths |-> Undefined]
        obj == raw.items
        get(key) ==
            IF \E i \in 1..Len(obj) : obj[i].k = key
              THEN obj[CHOOSE i \in 1..Len(obj) : obj[i].k = key].v
              ELSE Undefined
        pathRaw == IF get("path").t = "string" THEN Trim(get("path").s) ELSE <<>>
        path == IF pathRaw # <<>> THEN Json("string", pathRaw, <<>>) ELSE Undefined
        pathsRaw == get("paths")
        kept == SelectSeq(pathsRaw.items,
                          LAMBDA item : item.v.t = "string" /\ Trim(item.v.s) # <<>>)
        out == [i \in 1..Len(kept) |->
                    [k |-> "", v |-> Json("string", Trim(kept[i].v.s), <<>>)]]
        outPaths == IF Len(out) > 0 THEN Json("array", <<>>, out) ELSE Undefined
    IN  IF raw.t # "object"
          THEN Rejected("arguments must be an object.")
        ELSE IF path # Undefined /\ ~isAbsolute(path.s)
          THEN Rejected("path must be an absolute file path.")
        ELSE IF pathsRaw.t \notin {"undefined", "array"}
          THEN Rejected("paths must be an array of absolute file paths.")
        ELSE IF \E i \in 1..Len(out) : ~isAbsolute(out[i].v.s)
          THEN Rejected("paths must contain only absolute file paths.")
        ELSE IF path = Undefined /\ outPaths = Undefined
          THEN Rejected("Provide either 'path' or 'paths'.")
        ELSE [ok |-> TRUE, error |-> "", path |-> path, paths |-> outPaths]

\* The MCP handler calls parseParams with the raw arguments of the call.
ParseParams ==
    /\ tool.pc = "idle"
    /\ LET params == parseParams(tool.args)
       IN  tool' = [tool EXCEPT !.pc = IF params.ok THEN "parsed" ELSE "rejected",
                                !.error = params.error,
                                !.path = params.path,
                                !.paths = params.paths]
    /\ UNCHANGED <<tarVars, uploadVars>>

\* Extraction objects of EnriProxy's analysis responses, after JSON.parse.
Extractions ==
    LET Str(s) == Json("string", s, <<>>)
        Obj(props) == Json("object", <<>>, [i \in 1..Len(props) |-> [k |-> props[i][1], v |-> props[i][2]]])
        Arr(values) == Json("array", <<>>, [i \in 1..Len(values) |-> [k |-> "", v |-> values[i]]])
        x == Str(<<120>>)
        internal == Obj(<<<<"model", x>>, <<"uploadId", x>>>>)
    IN  { Obj(<<>>),
          Obj(<<<<"filename", x>>, <<"timeline", Obj(<<<<"type", x>>>>)>>>>),
          Obj(<<<<"filename", x>>, <<"upload_id", x>>, <<"detected_media_type", x>>,
                <<"analysis_mode_used", x>>,
                <<"multipass", Obj(<<<<"reduce", Obj(<<<<"model", x>>>>)>>>>)>>,
                <<"segment_summaries", Arr(<<Obj(<<<<"summary", x>>>>)>>)>>,
                <<"nested", Obj(<<<<"model", x>>>>)>>>>),
          Obj(<<<<"pages", Arr(<<Arr(<<x, internal>>), Obj(<<<<"multipass", x>>, <<"text", x>>>>)>>)>>,
                <<"analysis_mode_requested", x>>>>),
          Obj(<<<<"a", Obj(<<<<"b", Obj(<<<<"uploadId", x>>, <<"c", Arr(<<internal>>)>>>>)>>>>)>>>>),
          Obj(<<<<"__proto__", Obj(<<<<"summary", x>>>>)>>, <<"filename", x>>>>),
          Obj(<<<<"nested", Obj(<<<<"__proto__", x>>, <<"model", x>>>>)>>>>) }

\* The most chunk uploads (with the line each one logs) of one tool call.
MaxLogLines == 2

\* requestRaw: the headers of the request it hands to node's http(s).request.
\* The caller's headers are spread after Authorization, so a caller's own
\* Authorization header would replace the bearer credential; none passes one.
requestRaw_NoAuthorization(apiKey, method, headers) ==
    [method |-> method, headers |-> headers]

requestRaw(apiKey, method, headers) ==
    LET mine == SelectSeq(headers, LAMBDA h : h.k = "Authorization")
        others == SelectSeq(headers, LAMBDA h : h.k # "Authorization")
        Authorization ==
            IF mine = <<>> THEN [k |-> "Authorization", v |-> <<"Bearer ", apiKey>>]
                           ELSE mine[Len(mine)]
    IN  [method |-> method, headers |-> <<Authorization>> \o others]

\* createUploadSession and analyze (requestJson: POST with a JSON body) and
\* getUploadOffset (HEAD without headers of its own), in the order execute
\* calls them around the upload loop.
Request(kind) ==
    LET jsonHeaders == <<[k |-> "Content-Type", v |-> <<"application/json">>],
                         [k |-> "Content-Length", v |-> <<"n">>]>>
    IN  /\ \/ kind = "create" /\ tool.pc = "parsed"
           \/ kind = "offset" /\ tool.pc = "create"
           \/ kind = "analyze" /\ tool.pc = "offset"
        /\ \E extraction \in IF kind = "analyze" THEN Extractions ELSE {Undefined} :
               tool' = [tool EXCEPT
                   !.pc = kind,
                   !.requests = @ \o <<IF kind = "offset"
                                         THEN requestRaw(tool.apiKey, "HEAD", <<>>)
                                         ELSE requestRaw(tool.apiKey, "POST", jsonHeaders)>>,
                   !.extraction = extraction]
        /\ UNCHANGED <<tarVars, uploadVars>>

\* One appendUploadChunk of uploadChunkWithRetry and the line logged after it:
\* the progress line of the upload loop when the chunk is accepted, the resync
\* line after a 409 and the offset query that follows it, the retry line with
\* the message of the error otherwise.  A line is a sequence of text pieces.
AppendChunk(outcome) ==
    LET patch == requestRaw(tool.apiKey, "PATCH",
                     <<[k |-> "Content-Type", v |-> <<"application/offset+octet-stream">>],
                       [k |-> "Upload-Offset", v |-> <<"offset">>],
                       [k |-> "Content-Length", v |-> <<"n">>]>>)
        head == requestRaw(tool.apiKey, "HEAD", <<>>)
        message ==
            CASE outcome = "http"    -> <<"Failed to upload chunk (HTTP ", "500", ").">>
              [] outcome = "missing" -> <<"Missing Upload-Offset header in server response.">>
              [] outcome = "invalid" -> <<"Invalid Upload-Offset header: ", "abc">>
              [] outcome = "network" -> <<"connect ECONNREFUSED ", "127.0.0.1:8787">>
              [] outcome = "timeout" -> <<"Request timed out after ", "1000", "ms">>
              [] OTHER               -> <<>>
        attempt == Len(tool.logs) + 1
        line ==
            CASE outcome = "ok" ->
                     <<"enrivision: upload ", "50", "% (", "350", "/", "700", " bytes)">>
              [] outcome = "conflict" ->
                     <<"enrivision: offset resync (", "350", " -> ", "0", ")">>
              [] OTHER ->
                     <<"enrivision: retry ", ToString(attempt), "/", ToString(MaxAttempts),
                       " after ", ToString(backoffMs(attempt)), "ms (">> \o message \o <<")">>
    IN  /\ tool.pc = "offset"
        /\ Len(tool.logs) < MaxLogLines
        /\ tool' = [tool EXCEPT
               !.requests = @ \o (IF outcome = "conflict" THEN <<patch, head>> ELSE <<patch>>),
               !.logs = Append(@, line)]
        /\ UNCHANGED <<tarVars, uploadVars>>

\* stripInternalFields(value).  `next[key] = ...` is an assignment: for the
\* key "__proto__" it runs the setter inherited from Object.prototype, which
\* sets the prototype of `next` (or does nothing for a primitive) and creates
\* no own property.
RECURSIVE stripInternalFields(_)
stripInternalFields(value) ==
    IF value.t = "array"
      THEN Json("array", <<>>,
                [i \in 1..Len(value.items) |->
                     [k |-> "", v |-> stripInternalFields(value.items[i].v)]])
    ELSE IF value.t # "object"
      THEN value
    ELSE LET skipped == {"upload_id", "uploadId", "detected_media_type",
                         "analysis_mode_requested", "analysis_mode_used",
                         "multipass", "model"}
             assigned == SelectSeq(value.items,
                             LAMBDA e : e.k \notin skipped /\ e.k # "__proto__")
         IN  Json("object", <<>>,
                  [i \in 1..Len(assigned) |->
                       [k |-> assigned[i].k, v |-> stripInternalFields(assigned[i].v)]])

\* execute's last step: stripInternalExtractionFields(analysis.extraction),
\* that is asPlainObject(stripInternalFields(extraction)).
Sanitize ==
    /\ tool.pc = "analyze"
    /\ LET stripped == stripInternalFields(tool.extraction)
       IN  tool' = [tool EXCEPT
               !.pc = "done",
               !.result = IF stripped.t = "object" THEN stripped
                                                   ELSE Json("object", <<>>, <<>>)]
    /\ UNCHANGED <<tarVars, uploadVars>>

\* Raw arguments of the call and the API key of the deployment.
ToolInit ==
    LET Str(s) == Json("string", s, <<>>)
        Arr(values) == Json("array", <<>>, [i \in 1..Len(values) |-> [k |-> "", v |-> values[i]]])
        a == Str(<<47, 97>>)                 \* "/a"
        b == Str(<<32, 47, 98, 32>>)         \* " /b "
        rel == Str(<<97, 47, 98>>)           \* "a/b"
        dot == Str(<<46, 47, 97>>)           \* "./a"
        blank == Str(<<32>>)                 \* " "
        seven == Json("number", <<55>>, <<>>)
        pathArgs == {Undefined, Str(<<>>), blank, a, b, rel, dot, seven}
        pathsArgs == {Undefined, a, Arr(<<>>), Arr(<<a>>), Arr(<<a, b>>),
                      Arr(<<blank, seven, b>>), Arr(<<a, rel>>), Arr(<<dot>>),
                      Arr(<<seven>>)}
        Args(path, many) ==
            Json("object", <<>>,
                 (IF path = Undefined THEN <<>> ELSE <<[k |-> "path", v |-> path]>>) \o
                 (IF many = Undefined THEN <<>> ELSE <<[k |-> "paths", v |-> many]>>))
    IN  /\ \E args \in { Args(path, many) : path \in pathArgs, many \in pathsArgs }
                       \cup {Undefined, a, Arr(<<a>>)} :
            \E apiKey \in {"key-A", "key-B"} :
                tool = [IdleTool EXCEPT !.args = args, !.apiKey = apiKey]
        /\ entries = <<>>
        /\ tar = NewTar
        /\ sizeOnly = NoValue
        /\ cursors = [c \in Cursors |-> IdleCursor]
        /\ handles = [c \in Cursors |-> {}]
        /\ paths = <<>>
        /\ up = IdleUpload
        /\ server = NoSession

ToolNext ==
    \/ ParseParams
    \/ \E kind \in {"create", "offset", "analyze"} : Request(kind)
    \/ \E outcome \in {"ok", "conflict", "http", "missing", "invalid", "network", "timeout"} :
           AppendChunk(outcome)
    \/ Sanitize

SpecTool == ToolInit /\ [][ToolNext]_vars

C27_ExactlyOneOfPathOrPaths ==
    tool.pc \notin {"idle", "rejected"} =>
        (tool.path # Undefined) # (tool.paths # Undefined)

C25_ExtractionSanitized ==
    LET Internal == {"upload_id", "uploadId", "detected_media_type",
                     "analysis_mode_requested", "analysis_mode_used", "multipass", "model"}
        RECURSIVE Clean(_)
        Clean(value) ==
            \A i \in 1..Len(value.items) :
                value.items[i].k \notin Internal /\ Clean(value.items[i].v)
        RECURSIVE Kept(_)
        Kept(value) ==
            LET others == IF value.t = "object"
                            THEN SelectSeq(value.items, LAMBDA e : e.k \notin Internal)
                            ELSE value.items
            IN  [value EXCEPT !.items =
                    [i \in 1..Len(others) |-> [k |-> others[i].k, v |-> Kept(others[i].v)]]]
    IN  tool.pc = "done" =>
            /\ Clean(tool.result)
            /\ tool.result = Kept(tool.extraction)
            /\ stripInternalFields(tool.result) = tool.result

\* C31: a cursor started at an offset at or past the total size has ended
\* without a chunk and without opening a file; a cursor started at a negative
\* offset yields what a cursor started at 0 yields; a cursor given a chunk
\* size below 1 yields chunks of one byte.
C31_EdgeArguments ==
    \A c \in Cursors :
        LET cur == cursors[c]
        IN  cur.status # "idle" =>
                /\ cur.startOffset >= tar.totalSizeBytes =>
                       /\ cur.status = "done"
                       /\ cur.out = <<>> /\ cur.chunk = <<>>
                       /\ cur.opens = <<>> /\ handles[c] = {}
                /\ (cur.startOffset < 0 /\ cursors[1].startOffset = 0) =>
                       /\ Len(cur.out) <= Len(cursors[1].out)
                       /\ cur.out = SubSeq(cursors[1].out, 1, Len(cur.out))
                       /\ cur.status = "done" => cur.out = cursors[1].out
                /\ cur.chunkArg < 1 =>
                       /\ cur.chunkSize = 1
                       /\ cur.status = "yielded" => Len(cur.chunk) = 1
                       /\ cur.status = "running" => cur.parts = <<>>

\* C31 witness: a read started at offset -1 has ended with the whole archive,
\* a file-backed entry in it.
C31_Witness ==
    /\ cursors[2].status = "done"
    /\ cursors[2].startOffset < 0
    /\ cursors[2].out # <<>>
    /\ Len(cursors[2].out) = tar.totalSizeBytes
    /\ cursors[2].opens # <<>>

\* C32: every request for the next chunk is answered (a chunk, the end of the
\* sequence, or a thrown read error), also when a file returns fewer bytes
\* than declared.  At most 51 zero-length reads follow one another; the 51st
\* ends the filling of the chunk, which is yielded if it holds bytes, and the
\* first chunk left empty ends the sequence with less than the total size
\* yielded.  Every yielded chunk is non-empty and the bytes yielded never
\* exceed the total size minus the start offset.
C32_Terminates ==
    /\ [](\A c \in Cursors :
            LET cur == cursors[c]
                due == tar.totalSizeBytes - Max(0, cur.startOffset)
                gaveUp == cur.emptyReadsInARow > MaxEmptyReads
            IN  cur.status # "idle" =>
                    /\ cur.emptyReadsInARow <= MaxEmptyReads + 1
                    /\ Len(cur.out) <= Max(0, due)
                    /\ cur.status = "yielded" => cur.chunk # <<>>
                    /\ cur.status = "running" => ~gaveUp
                    /\ (cur.status = "yielded" /\ gaveUp) =>
                           Len(cur.chunk) < Min(cur.chunkSize, due - (Len(cur.out) - Len(cur.chunk)))
                    /\ (cur.status = "done" /\ gaveUp) =>
                           cur.parts = <<>> /\ Len(cur.out) < due
                    /\ (cur.status = "done" /\ ~gaveUp) => Len(cur.out) = Max(0, due))
    /\ \A c \in Cursors :
           (cursors[c].status = "running") ~> (cursors[c].status # "running")

\* C32 witness: a read over a file holding fewer bytes than declared has
\* ended after 51 zero-length reads in a row, short of the total size.
C32_Witness ==
    /\ cursors[1].status = "done"
    /\ cursors[1].emptyReadsInARow = MaxEmptyReads + 1
    /\ ~FilesHoldDeclaredSize
    /\ cursors[1].out # <<>>
    /\ Len(cursors[1].out) < tar.totalSizeBytes

\* C33: against a session that follows the protocol and does not expire, with
\* fewer than 5 transient append failures in a row per chunk and offset
\* queries answered, an upload whose session is about to be created (sources
\* that hold their declared size) eventually ends: the session's offset is
\* the declared total size, every byte of it stored, and the upload has
\* returned its upload id for the analysis.
C33_UploadCompletes ==
    (/\ up.pc = "create"
     /\ Multi => FilesHoldDeclaredSize
     /\ ~Multi => Disk[paths[1]].size = Disk[paths[1]].statSize)
    ~> (/\ up.pc = "done"
        /\ up.error = NoError
        /\ up.analyzed
        /\ up.uploadId = server.id
        /\ up.offset = up.total
        /\ server.declared = up.total
        /\ server.offset = server.declared
        /\ Len(server.accepted) = server.declared - server.base)

\* C33 witness: a multi-file upload has ended after a lost response, an
\* offset conflict with a resync, and a backoff.
C33_Witness ==
    /\ up.pc = "done"
    /\ Multi
    /\ up.resynced
    /\ server.broken > 0
    /\ server.offset = up.total
    /\ Len(server.accepted) = up.total

\* C34: in a multi-file upload of n input paths the manifest (the content of
\* archive entry 1) lists exactly n items in input order; item i has index i,
\* the name in the header of archive entry i + 1 and, as size_bytes, the
\* declared content size of that entry; that name is the 6-digit zero-padded
\* i followed by the file's extension in lower case (or '.img' when the
\* extension is empty or has a character outside a-z, 0-9 and the dot); the n
\* names are pairwise distinct.
C34_ManifestMatchesArchive ==
    (Multi /\ tar.status = "constructed") =>
        LET n == Len(paths)
            layout == tar.layout
            Name(i) == NameField(layout[i + 1].header)
            Item(i) ==
                   <<123, 34, 105, 110, 100, 101, 120, 34, 58>> \o toDecimal(i)
                \o <<44, 34, 110, 97, 109, 101, 34, 58, 34>> \o Name(i) \o <<34>>
                \o <<44, 34, 102, 105, 108, 101, 110, 97, 109, 101, 34, 58, 34>>
                \o Disk[paths[i]].filename \o <<34>>
                \o <<44, 34, 99, 111, 110, 116, 101, 110, 116, 95, 116, 121, 112, 101, 34, 58, 34>>
                \o detectMimeType(paths[i]) \o <<34>>
                \o <<44, 34, 115, 105, 122, 101, 95, 98, 121, 116, 101, 115, 34, 58>>
                \o toDecimal(layout[i + 1].contentSize) \o <<125>>
            RECURSIVE Items(_)
            Items(i) ==
                IF i > n THEN <<>>
                ELSE (IF i > 1 THEN <<44>> ELSE <<>>) \o Item(i) \o Items(i + 1)
            Extension(i) ==
                LET lower == toLowerCase(extname(Disk[paths[i]].filename))
                IN  IF lower # <<>> /\ \A k \in 1..Len(lower) :
                            lower[k] \in (97..122) \cup (48..57) \cup {46}
                      THEN lower ELSE <<46, 105, 109, 103>>
            SixDigits(i) ==
                [k \in 1..6 |->
                     48 + ((i \div (CASE k = 1 -> 100000 [] k = 2 -> 10000 [] k = 3 -> 1000
                                      [] k = 4 -> 100 [] k = 5 -> 10 [] OTHER -> 1)) % 10)]
        IN  /\ Len(layout) = n + 1
            /\ layout[1].source.buffer =
                      <<123, 34, 116, 121, 112, 101, 34, 58, 34, 101, 110, 114, 105, 118,
                        105, 115, 105, 111, 110, 95, 109, 101, 100, 105, 97, 95, 115, 101,
                        116, 34, 44, 34, 118, 101, 114, 115, 105, 111, 110, 34, 58, 49, 44,
                        34, 109, 101, 100, 105, 97, 95, 116, 121, 112, 101, 34, 58, 34, 105,
                        109, 97, 103, 101, 95, 115, 101, 116, 34, 44, 34, 105, 116, 101, 109,
                        115, 34, 58, 91>>
                   \o Items(1) \o <<93, 125>>
            /\ \A i \in 1..n :
                   /\ Name(i) = SixDigits(i) \o Extension(i)
                   /\ layout[i + 1].source.path = paths[i]
                   /\ layout[i + 1].contentSize = layout[i + 1].source.sizeBytes
                   /\ layout[i + 1].contentSize = Disk[paths[i]].statSize
            /\ \A i, j \in 1..n : i # j => Name(i) # Name(j)

\* C34 witness: the archive of two input files, the second with an
\* upper-case extension, has been built.
C34_Witness ==
    /\ Multi /\ tar.status = "constructed"
    /\ Len(paths) = 2
    /\ Disk[paths[2]].filename = <<98, 46, 74, 80, 71>>
    /\ NameField(tar.layout[3].header) = <<48, 48, 48, 48, 48, 50, 46, 106, 112, 103>>

\* C35: against a session that follows the protocol, with this client alone,
\* the local offset of the upload is at every step between 0 and the
\* session's offset, which is at most the declared total size; no step
\* lowers the local offset, and a step that changes it sets it to the offset
\* the session reports in that step.
C35_LocalOffsetFollowsServer ==
    [][ LET Bounded(u, sess) ==
                sess.created =>
                    /\ 0 <= u.offset
                    /\ u.offset <= sess.offset
                    /\ sess.offset <= sess.declared
                    /\ sess.declared = u.total
        IN  /\ Bounded(up, server)
            /\ Bounded(up', server')
            /\ up'.offset >= up.offset
            /\ up'.offset # up.offset =>
                   /\ up.pc \in {"query", "append", "requery"}
                   /\ up'.offset = server'.offset ]_vars

\* C35 witness: after a response was lost with a part of the body stored, the
\* 409 that answered the retry was resolved by taking the session's offset,
\* inside the chunk the client had sent.
C35_Witness ==
    /\ up.resynced
    /\ server.broken > 0
    /\ up.offset = server.offset
    /\ up.offset > 0
    /\ up.offset < up.total
    /\ up.pc \in {"pull", "append"}

\* C36: when the offset query that follows a 409 fails, with a network error
\* or an error status, uploadChunkWithRetry raises that error in the same
\* step, whatever attempts are left: no backoff is waited, no further request
\* is sent and the attempt counter does not move.
C36_FailedRequeryRaised ==
    [][ (up.pc = "requery" /\ up'.pc # "requery"
         /\ (up'.lastError \in {NetworkError, HttpErr(503)}
             \/ up'.error \in {NetworkError, HttpErr(503)})) =>
            /\ up'.pc = "failed"
            /\ up'.error \in {NetworkError, HttpErr(503)}
            /\ up'.lastError = HttpErr(409)
            /\ up'.attempt = up.attempt
            /\ up'.waits = up.waits
            /\ up'.sent = up.sent
            /\ up'.delay = up.delay
            /\ ~up'.analyzed
            /\ server' = server ]_vars

\* C36 witness: the re-query after the first 409 of a call failed with a
\* network error and the upload failed with it, four attempts unused.
C36_Witness ==
    /\ up.pc = "failed"
    /\ up.error = NetworkError
    /\ up.lastError = HttpErr(409)
    /\ up.attempt = 1
    /\ up.sent = 1
    /\ up.waits = 0

\* C37: in the archive upload, a first queried offset below 0 or above the
\* archive's total size ends the upload with 'Invalid server offset' before a
\* generator is started and before an append is sent; a first queried offset
\* equal to the total sends no append, starts no generator and goes on with
\* the upload id of the session; the production client never returns a
\* negative offset (it raises 'Invalid Upload-Offset header' itself, and the
\* upload ends there, equally before any generator or append).
C37_InvalidInitialOffset ==
    Multi /\ server.created =>
        LET untouched == /\ cursors[1] = IdleCursor
                         /\ up.firstDeclared = NoValue
                         /\ up.sent = 0
                         /\ server.accepted = <<>>
                         /\ server.lastDeclared = NoValue
        IN  /\ up.queried # NoValue /\ (up.queried < 0 \/ up.queried > up.total) =>
                /\ up.pc = "failed"
                /\ up.error = Err("Invalid server offset")
                /\ ~up.analyzed
                /\ untouched
            /\ up.queried # NoValue /\ up.queried = up.total =>
                /\ up.pc \in {"analyze", "done"}
                /\ up.error = NoError
                /\ up.offset = up.total
                /\ up.uploadId = server.id
                /\ untouched
            /\ server.base < 0 =>
                /\ up.queried = NoValue
                /\ up.pc \in {"query", "failed"}
                /\ up.pc = "failed" => up.error \in {Err("Invalid Upload-Offset header"), HttpErr(404)}
                /\ untouched

\* C37 witness: an archive upload that the offset above the total has ended
\* before a generator or an append.
C37_Witness ==
    /\ Multi
    /\ up.queried = up.total + 7
    /\ up.pc = "failed"
    /\ up.error = Err("Invalid server offset")
    /\ cursors[1] = IdleCursor
    /\ server.accepted = <<>>

\* C38: with files that hold their declared size, iterateChunks(o, c) fills
\* its chunks across the boundaries of headers, contents, paddings and
\* entries: with k = ceil((total - o) / c), the j-th yielded chunk has length
\* c when j < k and length total - o - c * (k - 1) when j = k, a yield adds
\* exactly its chunk to what was yielded before, the generator ends after the
\* k-th chunk, and within one chunk no more than 2 reads in a row return
\* nothing.
C38_ChunksAreFull ==
    /\ [](FilesHoldDeclaredSize =>
            \A c \in Cursors :
                LET cur == cursors[c]
                    o == Max(0, cur.startOffset)
                    size == cur.chunkSize
                    total == tar.totalSizeBytes
                    k == (total - o + size - 1) \div size
                    before == Len(cur.out) - Len(cur.chunk)
                    j == before \div size + 1
                IN  /\ cur.status \in {"running", "failed"} =>
                        /\ cur.emptyReadsInARow <= 2
                        /\ Len(cur.out) % size = 0
                        /\ Len(cur.out) \div size < k
                    /\ cur.status \in {"yielded", "abandoned"} =>
                        /\ before % size = 0
                        /\ j <= k
                        /\ j < k => Len(cur.chunk) = size
                        /\ j = k => Len(cur.chunk) = total - o - size * (k - 1)
                        /\ cur.position = o + Len(cur.out)
                    /\ cur.status = "done" /\ o < total =>
                        /\ Len(cur.out) = total - o
                        /\ Len(cur.chunk) = total - o - size * (k - 1))
    /\ [][\A c \in Cursors :
              /\ cursors'[c].status = "yielded" /\ cursors[c].status # "yielded" =>
                  /\ cursors[c].status = "running"
                  /\ cursors'[c].out = cursors[c].out \o cursors'[c].chunk
              /\ cursors[c].status # "idle" => Len(cursors'[c].out) >= Len(cursors[c].out)
              /\ cursors'[c].out # cursors[c].out => cursors'[c].status = "yielded"]_vars

\* C38 witness: a read resumed inside the archive has ended after more than
\* two chunks, the last one shorter than the chunk size, with a chunk that
\* spans more than one entry.
C38_Witness ==
    /\ FilesHoldDeclaredSize
    /\ Finished(2)
    /\ cursors[2].startOffset > 0
    /\ cursors[2].chunkSize = 700
    /\ Len(cursors[2].out) > 2 * 700
    /\ Len(cursors[2].chunk) \in 1..699
    /\ Len(tar.layout) > 1

\* C39: in every state of every cursor of a TarStream, the state's file
\* handle is set only in the content phase of a file-backed entry, it is the
\* handle of that entry's path and the only handle the cursor has open; in
\* the header, padding and end phases the handle is null and the cursor has
\* no file open; a cursor never has more than one file open.
C39_HandleOnlyInContent ==
    \A c \in Cursors :
        LET state == cursors[c].state
        IN  /\ Cardinality(handles[c]) <= 1
            /\ state.fileHandle = NoHandle => handles[c] = {}
            /\ state.fileHandle # NoHandle =>
                    /\ state.phase = "entry_content"
                    /\ state.entryIndex + 1 \in 1..Len(tar.layout)
                    /\ tar.layout[state.entryIndex + 1].source.type = "file"
                    /\ state.fileHandle = tar.layout[state.entryIndex + 1].source.path
                    /\ handles[c] = {state.fileHandle}
            /\ state.phase \in {"entry_header", "entry_padding", "eof"} =>
                    /\ state.fileHandle = NoHandle
                    /\ handles[c] = {}

\* C39 witness: a cursor that had the file of its first entry open has closed
\* it, has read on through padding and header, and holds the file of its
\* second entry.
C39_Witness ==
    \E c \in Cursors :
        /\ cursors[c].status = "running"
        /\ cursors[c].opens = <<0, 1>>
        /\ cursors[c].state.phase = "entry_content"
        /\ cursors[c].state.entryIndex = 1
        /\ cursors[c].state.fileHandle # NoHandle
        /\ handles[c] = {tar.layout[2].source.path}
        /\ tar.layout[1].source.path # tar.layout[2].source.path

\* C40: two generators of one TarStream are independent.  Every step moves
\* one generator only, to the state its own record alone determines, and
\* leaves the other generator and its open files as they were; when both
\* have ended, each has yielded exactly the chunks it yields when it is run
\* alone from its start offset; and once the stream is constructed no step
\* changes its layout or its total size, which is the size the size-only
\* computation gives.
C40_CursorsIndependent ==
    /\ [](tar.status = "constructed" =>
              /\ tar.totalSizeBytes = computeTarSizeBytes(entries)
              /\ Finished(1) /\ Finished(2) =>
                    \A c \in Cursors :
                        cursors[c] = RunAlone(StartedCursor(cursors[c].startOffset,
                                                            cursors[c].chunkArg)))
    /\ [][/\ tar.status = "constructed" => tar' = tar
          /\ \A c \in Cursors :
                 cursors'[c] # cursors[c] =>
                    /\ \A d \in Cursors \ {c} :
                           cursors'[d] = cursors[d] /\ handles'[d] = handles[d]
                    /\ cursors'[c] =
                           IF cursors[c].status = "running"
                             THEN AfterRead(cursors[c],
                                            readNext(tar.layout, cursors[c].state,
                                                     cursors[c].remaining))
                           ELSE IF cursors[c].status = "yielded"
                             THEN EnterChunk(cursors[c])
                           ELSE StartedCursor(cursors'[c].startOffset,
                                              cursors'[c].chunkArg)]_vars

\* C40 witness: two generators of one stream are in the middle of the
\* archive at different positions, each suspended with chunks already
\* yielded, and each holds its own handle on the same file.
C40_Witness ==
    /\ cursors[1].status = "yielded"
    /\ cursors[2].status = "running"
    /\ cursors[1].out # <<>>
    /\ cursors[2].out # <<>>
    /\ cursors[1].position # cursors[2].position
    /\ cursors[1].state.fileHandle # NoHandle
    /\ cursors[2].state.fileHandle = cursors[1].state.fileHandle
    /\ handles[1] = handles[2]
====
